---------------------------- MODULE Spec2Model ----------------------------
(***************************************************************************)
(* A model of the constraint engine of sherlock-fox: the per-cell          *)
(* candidate state (PuzzleCellSelection), the grid (Puzzle), the row-local *)
(* fixed-point elimination (run_inference) and the undo tree.              *)
(*                                                                         *)
(* Vectors are functions over 0..len-1, so that columns, rows and slot     *)
(* indices keep the numbers they have in the source.                       *)
(***************************************************************************)
EXTENDS Integers, Sequences, FiniteSets, TLC

(***************************************************************************)
(* Bounds of the model.                                                    *)
(***************************************************************************)
\* the row length of the grids the engine specification draws
GridWidth == 2

\* the width of the cell the cell specification follows
CellWidth == 3

\* the number of events the user causes in the program specification
MaxInputs == 4

\* the row length of the two-row grids the clue specification draws
ClueWidth == 3

(***************************************************************************)
(* UpdateCellIndexOperation, puzzle.rs 171-177                             *)
(***************************************************************************)
UpdateCellIndexOperation == {"Clear", "Set", "Toggle", "Solo"}

(***************************************************************************)
(* PuzzleCellSelection, puzzle.rs 179-308.  A FixedBitSet is its length    *)
(* (width) and the set of its one bits.                                    *)
(***************************************************************************)
Enabled(width, bits) == [tag |-> "Enabled", width |-> width, bits |-> bits]

SoloSel(width, index) == [tag |-> "Solo", width |-> width, index |-> index]

VOID == [tag |-> "Void"]

is_void(sel) == sel.tag = "Void"

is_enabled(sel, index) ==
    CASE sel.tag = "Enabled" -> index \in sel.bits
      [] sel.tag = "Solo"    -> index = sel.index
      [] sel.tag = "Void"    -> FALSE

\* is_solo on a bitset without the test that the bit is alone
is_solo_any_bit(sel, index) ==
    CASE sel.tag = "Enabled" -> index \in sel.bits
      [] sel.tag = "Solo"    -> index = sel.index
      [] sel.tag = "Void"    -> FALSE

is_solo(sel, index) ==
    CASE sel.tag = "Enabled" -> index \in sel.bits /\ Cardinality(sel.bits) = 1
      [] sel.tag = "Solo"    -> index = sel.index
      [] sel.tag = "Void"    -> FALSE

\* is_any_solo, puzzle.rs 221-236: the one enabled index, if there is exactly one
is_any_solo(sel) ==
    CASE sel.tag = "Enabled" ->
           IF Cardinality(sel.bits) = 1
           THEN [kind |-> "Some", index |-> CHOOSE i \in sel.bits : TRUE]
           ELSE [kind |-> "None"]
      [] sel.tag = "Solo"    -> [kind |-> "Some", index |-> sel.index]
      [] sel.tag = "Void"    -> [kind |-> "None"]

width(sel) ==
    CASE sel.tag = "Enabled" -> sel.width
      [] sel.tag = "Solo"    -> sel.width
      [] sel.tag = "Void"    -> 0

count_ones(sel) ==
    CASE sel.tag = "Enabled" -> Cardinality(sel.bits)
      [] sel.tag = "Solo"    -> 1
      [] sel.tag = "Void"    -> 0

\* the slot indices iter_ones yields
iter_ones(sel) ==
    CASE sel.tag = "Enabled" -> sel.bits
      [] sel.tag = "Solo"    -> {sel.index}
      [] sel.tag = "Void"    -> {}

\* usize::saturating_add_signed
saturating_add_signed(n, d) == IF n + d < 0 THEN 0 ELSE n + d

\* apply on a bitset with the result of put read the wrong way round: Set
\* reports a change when the bit was already set
apply_enabled_put_inverted(sel, index, op) ==
    CASE op = "Clear" ->
           [sel |-> Enabled(sel.width, sel.bits \ {index}),
            ret |-> IF index \in sel.bits THEN 1 ELSE 0]
      [] op = "Set" ->
           [sel |-> Enabled(sel.width, sel.bits \cup {index}),
            ret |-> IF index \in sel.bits THEN 1 ELSE 0]
      [] op = "Toggle" ->
           [sel |-> Enabled(sel.width,
                            IF index \in sel.bits THEN sel.bits \ {index}
                                                  ELSE sel.bits \cup {index}),
            ret |-> 1]

\* apply on an Enabled bitset with a non-Solo op, puzzle.rs 280-298:
\* the cell after the call and the returned count
apply_enabled(sel, index, op) ==
    CASE op = "Clear" ->
           [sel |-> Enabled(sel.width, sel.bits \ {index}),
            ret |-> IF index \in sel.bits THEN 1 ELSE 0]
      [] op = "Set" ->
           [sel |-> Enabled(sel.width, sel.bits \cup {index}),
            ret |-> IF index \in sel.bits THEN 0 ELSE 1]
      [] op = "Toggle" ->
           [sel |-> Enabled(sel.width,
                            IF index \in sel.bits THEN sel.bits \ {index}
                                                  ELSE sel.bits \cup {index}),
            ret |-> 1]

\* apply, but with Solo on a cell already Solo on that index leaving the cell
\* with nothing enabled
apply_unsoloing(sel, index, op) ==
    IF is_void(sel) THEN [sel |-> sel, ret |-> 0]
    ELSE IF op = "Solo" THEN
        IF sel.tag = "Solo" /\ sel.index = index
        THEN [sel |-> Enabled(sel.width, {}), ret |-> 0]
        ELSE [sel |-> SoloSel(width(sel), index),
              ret |-> saturating_add_signed(count_ones(sel),
                                            IF is_enabled(sel, index) THEN -1 ELSE 1)]
    ELSE IF sel.tag = "Enabled" THEN apply_enabled(sel, index, op)
    ELSE apply_enabled(Enabled(sel.width, {sel.index}), index, op)

\* apply, but with a Solo cell turned into an empty bitset, its own bit not
\* inserted, before a non-Solo op
apply_forgetting_solo(sel, index, op) ==
    IF is_void(sel) THEN [sel |-> sel, ret |-> 0]
    ELSE IF op = "Solo" THEN
        [sel |-> SoloSel(width(sel), index),
         ret |-> saturating_add_signed(count_ones(sel),
                                       IF is_enabled(sel, index) THEN -1 ELSE 1)]
    ELSE IF sel.tag = "Enabled" THEN apply_enabled(sel, index, op)
    ELSE apply_enabled(Enabled(sel.width, {}), index, op)

\* apply, but with Solo reporting the count of enabled bits less one whether
\* or not the index was enabled
apply_solo_less_one(sel, index, op) ==
    IF is_void(sel) THEN [sel |-> sel, ret |-> 0]
    ELSE IF op = "Solo" THEN
        [sel |-> SoloSel(width(sel), index),
         ret |-> saturating_add_signed(count_ones(sel), -1)]
    ELSE IF sel.tag = "Enabled" THEN apply_enabled(sel, index, op)
    ELSE apply_enabled(Enabled(sel.width, {sel.index}), index, op)

\* PuzzleCellSelection::apply, puzzle.rs 265-308
apply(sel, index, op) ==
    IF is_void(sel) THEN [sel |-> sel, ret |-> 0]
    ELSE IF op = "Solo" THEN
        [sel |-> SoloSel(width(sel), index),
         ret |-> saturating_add_signed(count_ones(sel),
                                       IF is_enabled(sel, index) THEN -1 ELSE 1)]
    ELSE IF sel.tag = "Enabled" THEN apply_enabled(sel, index, op)
    ELSE apply_enabled(Enabled(sel.width, {sel.index}), index, op)

(***************************************************************************)
(* CellLoc, CellLocIndex, puzzle.rs 72-133                                 *)
(***************************************************************************)
CellLoc(row, col) == [row |-> row, col |-> col]

CellLocIndex(loc, index) == [loc |-> loc, index |-> index]

(***************************************************************************)
(* PuzzleRow and Puzzle, puzzle.rs 316-535                                 *)
(***************************************************************************)
\* PuzzleRow::new_shuffled with the answers the shuffle produced
NewRow(len, answers) ==
    [cell_selection |-> [c \in 0 .. len - 1 |-> Enabled(len, 0 .. len - 1)],
     cell_answers   |-> answers]

RowLen(row) == Cardinality(DOMAIN row.cell_selection)

\* PuzzleRow::max_column: len.saturating_sub(1)
RowMaxColumn(row) == IF RowLen(row) = 0 THEN 0 ELSE RowLen(row) - 1

EmptyPuzzle == [rows |-> <<>>, max_column |-> 0]

n_rows(p) == Cardinality(DOMAIN p.rows)

\* Puzzle::add_row; rows are numbered from 0
add_row(p, row) ==
    [rows |-> [r \in 0 .. n_rows(p) |-> IF r < n_rows(p) THEN p.rows[r] ELSE row],
     max_column |-> IF RowMaxColumn(row) > p.max_column THEN RowMaxColumn(row)
                                                        ELSE p.max_column]

iter_rows(p) == 0 .. n_rows(p) - 1

iter_cols(p) == 0 .. p.max_column

\* PuzzleRow::selection_at / selection_mut_at: None outside the row
InRow(p, loc) == loc.col \in DOMAIN p.rows[loc.row].cell_selection

\* Puzzle::cell_selection: the shared VOID outside the row
cell_selection(p, loc) ==
    IF InRow(p, loc) THEN p.rows[loc.row].cell_selection[loc.col] ELSE VOID

\* the puzzle with the cell at loc replaced (a write through cell_selection_mut)
WithCell(p, loc, sel) ==
    [p EXCEPT !.rows[loc.row].cell_selection[loc.col] = sel]

\* the number of enabled candidate bits of the whole grid
TotalOnes(p) ==
    LET RECURSIVE Sum(_)
        Sum(S) == IF S = {} THEN 0
                  ELSE LET l == CHOOSE x \in S : TRUE
                       IN  count_ones(cell_selection(p, l)) + Sum(S \ {l})
    IN  Sum({CellLoc(r, c) : r \in iter_rows(p), c \in iter_cols(p)})

(***************************************************************************)
(* Puzzle::one_inference_step, puzzle.rs 537-612                           *)
(***************************************************************************)
\* the cells a row's forced singles name (the row's entry of solo_ops, puzzle.rs
\* 571-591): a cell with exactly one enabled index (cell_inf), and an index
\* enabled in exactly one column of the row (counts)
RowSolos(p, row) ==
    LET ones(col) == iter_ones(cell_selection(p, CellLoc(row, col)))
        indices == UNION {ones(col) : col \in iter_cols(p)}
        naked  == {CellLocIndex(CellLoc(row, col), i) :
                     <<col, i>> \in {ci \in iter_cols(p) \X indices :
                                       ones(ci[1]) = {ci[2]}}}
        hidden == {CellLocIndex(CellLoc(row, col), i) :
                     <<col, i>> \in {ci \in iter_cols(p) \X indices :
                                       /\ ci[2] \in ones(ci[1])
                                       /\ \A c2 \in iter_cols(p) :
                                            ci[2] \in ones(c2) => c2 = ci[1]}}
    IN  naked \cup hidden

\* the orders a hash set may be iterated in: every sequence without repetition
\* of all its elements
RECURSIVE Orders(_)
Orders(S) ==
    IF S = {} THEN {<<>>}
    ELSE UNION {{<<x>> \o rest : rest \in Orders(S \ {x})} : x \in S}

\* the forced operations applied with Clear to every cell of the row, the
\* single's own cell included
RECURSIVE ApplySolosClearing(_, _, _)
ApplySolosClearing(sel, loc, order) ==
    IF order = <<>> THEN [sel |-> sel, ret |-> 0, changed |-> FALSE]
    ELSE LET solo_index == Head(order)
             first == apply(sel, solo_index.index, "Clear")
             rest  == ApplySolosClearing(first.sel, loc, Tail(order))
         IN  [sel |-> rest.sel, ret |-> first.ret + rest.ret,
              changed |-> first.ret > 0 \/ rest.changed]

\* the forced operations applied with Set, where the source has Clear, to the
\* cells other than the single's
RECURSIVE ApplySolosSetting(_, _, _)
ApplySolosSetting(sel, loc, order) ==
    IF order = <<>> THEN [sel |-> sel, ret |-> 0, changed |-> FALSE]
    ELSE LET solo_index == Head(order)
             op    == IF loc = solo_index.loc THEN "Solo" ELSE "Set"
             first == apply(sel, solo_index.index, op)
             rest  == ApplySolosSetting(first.sel, loc, Tail(order))
         IN  [sel |-> rest.sel, ret |-> first.ret + rest.ret,
              changed |-> first.ret > 0 \/ rest.changed]

\* puzzle.rs 597-607: the forced operations of a row applied, in the order the
\* set is iterated in, to the cell at loc: the cell after, the sum of the
\* returned counts, and whether some call returned more than 0
RECURSIVE ApplySolos(_, _, _)
ApplySolos(sel, loc, order) ==
    IF order = <<>> THEN [sel |-> sel, ret |-> 0, changed |-> FALSE]
    ELSE LET solo_index == Head(order)
             op    == IF loc = solo_index.loc THEN "Solo" ELSE "Clear"
             first == apply(sel, solo_index.index, op)
             rest  == ApplySolos(first.sel, loc, Tail(order))
         IN  [sel |-> rest.sel, ret |-> first.ret + rest.ret,
              changed |-> first.ret > 0 \/ rest.changed]

\* cell_selection_mut, puzzle.rs 499-503: there is no cell to hand out for a
\* column the row lacks, and todo!() aborts
cell_selection_mut_aborts(p, loc) == ~InRow(p, loc)

\* a row's outcome with every column of a row that has forced operations put
\* back into the work set, whatever apply returned
RowOutcomeAlwaysChanged(p, row, order) ==
    LET res == [c \in iter_cols(p) |->
                  ApplySolos(cell_selection(p, CellLoc(row, c)), CellLoc(row, c), order)]
        RECURSIVE Sum(_)
        Sum(S) == IF S = {} THEN 0
                  ELSE LET c == CHOOSE x \in S : TRUE IN res[c].ret + Sum(S \ {c})
    IN  [cells   |-> [c \in DOMAIN p.rows[row].cell_selection |-> res[c].sel],
         changed |-> IF order = <<>> THEN {}
                     ELSE {CellLoc(row, c) : c \in iter_cols(p)},
         updates |-> Sum(iter_cols(p))]

\* puzzle.rs 593-609 for one row: the row's cells after its forced operations
\* were applied in the given order, the columns whose apply reported a change,
\* and the sum of the returned counts
RowOutcome(p, row, order) ==
    LET res == [c \in iter_cols(p) |->
                  ApplySolos(cell_selection(p, CellLoc(row, c)), CellLoc(row, c), order)]
        RECURSIVE Sum(_)
        Sum(S) == IF S = {} THEN 0
                  ELSE LET c == CHOOSE x \in S : TRUE IN res[c].ret + Sum(S \ {c})
    IN  [cells   |-> [c \in DOMAIN p.rows[row].cell_selection |-> res[c].sel],
         changed |-> {CellLoc(row, c) : c \in {x \in iter_cols(p) : res[x].changed}},
         updates |-> Sum(iter_cols(p))]

\* what the row can come to, over the orders its set of forced operations may
\* be iterated in
RowOutcomes(p, row) == {RowOutcome(p, row, order) : order \in Orders(RowSolos(p, row))}

\* the rows considered being those of the work set and every row above one
ConsideredRowsAbove(considering) == UNION {0 .. l.row : l \in considering}

\* the rows one_inference_step considers (puzzle.rs 564)
ConsideredRows(considering) == {l.row : l \in considering}

\* a row with forced operations reaches cell_selection_mut for every column of
\* the grid (puzzle.rs 593-596)
StepAborts(p, considering) ==
    \E row \in ConsideredRows(considering) :
        /\ RowSolos(p, row) # {}
        /\ \E col \in iter_cols(p) : cell_selection_mut_aborts(p, CellLoc(row, col))

\* the outcomes one step may have: one outcome per considered row
RECURSIVE RowChoices(_, _)
RowChoices(p, rows) ==
    IF rows = {} THEN {<<>>}
    ELSE LET r == CHOOSE x \in rows : TRUE
         IN  {(r :> o) @@ f : o \in RowOutcomes(p, r), f \in RowChoices(p, rows \ {r})}

StepOutcomes(p, considering) == RowChoices(p, ConsideredRows(considering))

\* one_inference_step, given the outcome of every considered row: the puzzle
\* after, the cells whose apply reported a change, the returned count
one_inference_step(p, considering, outcome) ==
    LET rows == ConsideredRows(considering)
        RECURSIVE Sum(_)
        Sum(S) == IF S = {} THEN 0
                  ELSE LET r == CHOOSE x \in S : TRUE IN outcome[r].updates + Sum(S \ {r})
    IN  [puzzle  |-> [p EXCEPT !.rows = [r \in DOMAIN p.rows |->
                        IF r \in rows
                        THEN [p.rows[r] EXCEPT !.cell_selection = outcome[r].cells]
                        ELSE p.rows[r]]],
         changed |-> UNION {outcome[r].changed : r \in rows},
         updates |-> Sum(rows)]

(***************************************************************************)
(* SelectionProxy and ImplicationResolver, clues.rs 242-475                *)
(***************************************************************************)
\* CellLocIndex::shift_column, puzzle.rs 104-109
shift_column(index, shift) ==
    CellLocIndex(CellLoc(index.loc.row, index.loc.col + shift), index.index)

\* reflect_loc_about with the shift not doubled: the reflected cell lands on
\* the mirror's own column
reflect_loc_onto(index, mirror) ==
    shift_column(index, mirror.loc.col - index.loc.col)

\* CellLocIndex::reflect_loc_about, puzzle.rs 84-87 and 111-116
reflect_loc_about(index, mirror) ==
    shift_column(index, (mirror.loc.col - index.loc.col) * 2)

\* Puzzle::answer_at, decayed to a slot index (add_answer, clues.rs 401-403)
answer_index(p, loc) ==
    CellLocIndex(loc, p.rows[loc.row].cell_answers[loc.col])

\* SelectionProxy::from_puzzle_and_index, clues.rs 266-278
SelectionProxy(p, index) ==
    LET sel == cell_selection(p, index.loc)
    IN  [index_     |-> index,
         is_enabled |-> is_enabled(sel, index.index),
         is_solo    |-> is_solo(sel, index.index),
         is_void    |-> is_void(sel)]

is_enabled_not_solo(proxy) == proxy.is_enabled /\ ~proxy.is_solo

Min(S) == CHOOSE x \in S : \A y \in S : x <= y

Max(S) == CHOOSE x \in S : \A y \in S : x >= y

SeqRange(f) == {f[i] : i \in DOMAIN f}

\* ImplicationResolver::colspan, clues.rs 405-408 and puzzle.rs 44-58
colspan(cells) ==
    LET cols == {c.loc.col : c \in SeqRange(cells)}
    IN  [min |-> Min(cols), max |-> Max(cols), abs_diff |-> Max(cols) - Min(cols)]

\* iter_col_shift without the range that precedes the grid's columns: the
\* window's minimum column starts at 0
iter_col_shift_from_zero(p, from_span) ==
    [k \in 1 .. p.max_column + 1 |-> (k - 1) - from_span.min]

\* Puzzle::iter_col_shift, puzzle.rs 471-475: the shifts, in order
iter_col_shift(p, from_span) ==
    [k \in 1 .. from_span.abs_diff + p.max_column + 1 |->
        (k - 1 - from_span.abs_diff) - from_span.min]

\* ImplicationResolver::iter_all_cols, clues.rs 410-420: the shifted windows,
\* in order
iter_all_cols(p, cells) ==
    LET shifts == iter_col_shift(p, colspan(cells))
    IN  [k \in DOMAIN shifts |->
            [i \in DOMAIN cells |-> shift_column(cells[i], shifts[k])]]

\* itertools' permutations(2) of a vector of n elements: the ordered pairs of
\* positions, in lexicographic order
Permutations2(n) ==
    LET pairs == {ij \in (1 .. n) \X (1 .. n) : ij[1] # ij[2]}
        rank(ij) == (ij[1] - 1) * n + ij[2]
    IN  [k \in 1 .. Cardinality(pairs) |->
            CHOOSE ij \in pairs :
                Cardinality({o \in pairs : rank(o) < rank(ij)}) = k - 1]

RECURSIVE Flatten(_)
Flatten(seqs) == IF seqs = <<>> THEN <<>> ELSE Head(seqs) \o Flatten(Tail(seqs))

\* what a rule, or a whole evaluation, ends in
NoneResult == [kind |-> "None"]

SomeResult(index, op) == [kind |-> "Some", index |-> index, op |-> op]

PanicResult == [kind |-> "Panic"]

\* the last result that is not None, where the source takes the first
LastResult(results) ==
    IF \A k \in DOMAIN results : results[k].kind = "None" THEN [kind |-> "None"]
    ELSE results[Max({k \in DOMAIN results : results[k].kind # "None"})]

\* the first result of a lazily evaluated sequence of rule results that is not
\* None: nothing after it is evaluated
FirstResult(results) ==
    IF \A k \in DOMAIN results : results[k].kind = "None" THEN NoneResult
    ELSE results[Min({k \in DOMAIN results : results[k].kind # "None"})]

(***************************************************************************)
(* SameColumnClue, clues.rs 208-240 and 569-604                            *)
(***************************************************************************)
SameColumnClue(loc, row2, row3) == [loc |-> loc, row2 |-> row2, row3 |-> row3]

NoRow == -1

\* the first rule without its panic
SameColumnContradictionIgnored(l1, l2) == NoneResult

\* the three rules, in the order they are added (clues.rs 578-598)
SameColumnContradiction(l1, l2) ==
    IF ~l1.is_enabled /\ l2.is_solo THEN PanicResult ELSE NoneResult

\* the second rule forcing the partner, which is solo already, where the
\* source forces this cell
SameColumnSoloOnPartner(l1, l2) ==
    IF is_enabled_not_solo(l1) /\ l2.is_solo
    THEN SomeResult(l2.index_, "Solo") ELSE NoneResult

SameColumnSolo(l1, l2) ==
    IF is_enabled_not_solo(l1) /\ l2.is_solo
    THEN SomeResult(l1.index_, "Solo") ELSE NoneResult

\* the third rule with its test of the partner the wrong way round
SameColumnClearOnEnabled(l1, l2) ==
    IF is_enabled_not_solo(l1) /\ l2.is_enabled
    THEN SomeResult(l1.index_, "Clear") ELSE NoneResult

SameColumnClear(l1, l2) ==
    IF is_enabled_not_solo(l1) /\ ~l2.is_enabled
    THEN SomeResult(l1.index_, "Clear") ELSE NoneResult

\* iter_perm_2s (clues.rs 428-449) of one shifted window under the three rules
SameColumnWindow(p, cells) ==
    LET perms == Permutations2(Len(cells))
    IN  Flatten([k \in DOMAIN perms |->
            LET l1 == SelectionProxy(p, cells[perms[k][1]])
                l2 == SelectionProxy(p, cells[perms[k][2]])
            IN  <<SameColumnContradiction(l1, l2), SameColumnSolo(l1, l2),
                  SameColumnClear(l1, l2)>>])

SameColumnCells(p, clue) ==
    LET two == <<answer_index(p, clue.loc),
                 answer_index(p, CellLoc(clue.row2, clue.loc.col))>>
    IN  IF clue.row3 = NoRow THEN two
        ELSE Append(two, answer_index(p, CellLoc(clue.row3, clue.loc.col)))

SameColumnAdvance(p, clue) ==
    LET windows == iter_all_cols(p, SameColumnCells(p, clue))
    IN  FirstResult(Flatten([k \in DOMAIN windows |->
                               SameColumnWindow(p, windows[k])]))

(***************************************************************************)
(* AdjacentColumnClue, clues.rs 671-747                                    *)
(***************************************************************************)
AdjacentColumnClue(loc1, loc2) == [loc1 |-> loc1, loc2 |-> loc2]

\* the rule satisfied with the partner missing on one side only
AdjacentColumnClearEitherSide(l1, l2, l2p) ==
    IF is_enabled_not_solo(l1) /\ (~l2.is_enabled \/ ~l2p.is_enabled)
    THEN SomeResult(l1.index_, "Clear") ELSE NoneResult

\* the rule without its test of the mirrored partner
AdjacentColumnClearForward(l1, l2, l2p) ==
    IF is_enabled_not_solo(l1) /\ ~l2.is_enabled
    THEN SomeResult(l1.index_, "Clear") ELSE NoneResult

\* the one rule (clues.rs 726-741)
AdjacentColumnClear(l1, l2, l2p) ==
    IF is_enabled_not_solo(l1) /\ ~l2.is_enabled /\ ~l2p.is_enabled
    THEN SomeResult(l1.index_, "Clear") ELSE NoneResult

\* Loc2Mirrored, clues.rs 332-337, as iter_reflected_2s builds it (clues.rs
\* 460-466) of an ordered pair of window cells
Loc2Mirrored(p, c1, c2) ==
    [loc1   |-> SelectionProxy(p, c1),
     loc2   |-> SelectionProxy(p, c2),
     loc2_p |-> SelectionProxy(p, reflect_loc_about(c2, c1))]

\* the triples iter_reflected_2s builds of a window, one per ordered pair, in
\* order, before its filter (clues.rs 455-466)
Mirrored2s(p, cells) ==
    LET perms == Permutations2(Len(cells))
    IN  [k \in DOMAIN perms |-> Loc2Mirrored(p, cells[perms[k][1]], cells[perms[k][2]])]

\* iter_reflected_2s (clues.rs 451-475) of one shifted window under the rule
AdjacentColumnWindow(p, cells) ==
    LET triples == Mirrored2s(p, cells)
    IN  Flatten([k \in DOMAIN triples |->
            IF triples[k].loc1.is_void THEN <<>>
            ELSE <<AdjacentColumnClear(triples[k].loc1, triples[k].loc2,
                                       triples[k].loc2_p)>>])

AdjacentColumnCells(p, clue) ==
    <<answer_index(p, clue.loc1), answer_index(p, clue.loc2)>>

AdjacentColumnAdvance(p, clue) ==
    LET windows == iter_all_cols(p, AdjacentColumnCells(p, clue))
    IN  FirstResult(Flatten([k \in DOMAIN windows |->
                               AdjacentColumnWindow(p, windows[k])]))

(***************************************************************************)
(* BetweenColumnsClue, furlock/src/clues.rs 632-704, with the resolver of  *)
(* furlock/src/clues.rs 174-211 and 265-293.  Its windows are those of     *)
(* iter_all_cols: the shifts from minus the span up to the last column,    *)
(* each less the leftmost column.                                          *)
(***************************************************************************)
BetweenColumnsClue(loc1, loc2, loc3) == [loc1 |-> loc1, loc2 |-> loc2, loc3 |-> loc3]

\* the one rule (furlock/src/clues.rs 671-686), Clear replaced by Set
BetweenColumnsSet(l1, l3p, l2, l3, l1p) ==
    IF /\ is_enabled_not_solo(l2)
       /\ ~((l1.is_enabled /\ l3.is_enabled) \/ (l1p.is_enabled /\ l3p.is_enabled))
    THEN SomeResult(l2.index_, "Set") ELSE NoneResult

\* the one rule (furlock/src/clues.rs 671-686)
BetweenColumnsClear(l1, l3p, l2, l3, l1p) ==
    IF /\ is_enabled_not_solo(l2)
       /\ ~((l1.is_enabled /\ l3.is_enabled) \/ (l1p.is_enabled /\ l3p.is_enabled))
    THEN SomeResult(l2.index_, "Clear") ELSE NoneResult

\* iter_reflected_3s (furlock/src/clues.rs 265-293) of one shifted window
\* under the rule: the outer cells reflected about the middle one
BetweenColumnsWindow(p, cells) ==
    LET loc1   == cells[1]
        loc2   == cells[2]
        loc3   == cells[3]
        loc1_p == reflect_loc_about(loc1, loc2)
        loc3_p == reflect_loc_about(loc3, loc2)
    IN  <<BetweenColumnsClear(SelectionProxy(p, loc1), SelectionProxy(p, loc3_p),
                              SelectionProxy(p, loc2), SelectionProxy(p, loc3),
                              SelectionProxy(p, loc1_p))>>

BetweenColumnsCells(p, clue) ==
    <<answer_index(p, clue.loc1), answer_index(p, clue.loc2), answer_index(p, clue.loc3)>>

BetweenColumnsAdvance(p, clue) ==
    LET windows == iter_all_cols(p, BetweenColumnsCells(p, clue))
    IN  FirstResult(Flatten([k \in DOMAIN windows |->
                               BetweenColumnsWindow(p, windows[k])]))

(***************************************************************************)
(* The state.                                                              *)
(***************************************************************************)
VARIABLES
    puzzle,       \* the live Puzzle
    pc,           \* "idle", "inferring" (inside run_inference) or "aborted"
    considering,  \* run_inference's work set
    to_update,    \* run_inference's in-out argument
    updates,      \* run_inference's running total
    steps,        \* run_inference's count of passes
    call,         \* the call in progress or last completed
    before,       \* the puzzle when that call began
    ret,          \* what the last completed call returned
    cell,         \* one PuzzleCellSelection on its own
    tree,         \* the UndoTree component: nodes, edges, root
    tree_loc,     \* the UndoTreeLocation component
    update_cell_index, \* Events<UpdateCellIndex> cell_update has yet to read
    push_new_action,   \* Events<PushNewAction> add_undo_state has yet to read
    fit_clicked,  \* Events<FitClickedEvent<TopButtonAction>> adjust_undo_state has yet to read
    inputs,       \* the number of events the user has caused
    history       \* what the undo systems have done since the tree was created

enginevars == <<puzzle, pc, considering, to_update, updates, steps, call, before, ret>>

undovars ==
    <<tree, tree_loc, update_cell_index, push_new_action, fit_clicked, inputs, history>>

vars == <<enginevars, cell, undovars>>

NoCall == [kind |-> "none"]

NoRet == [kind |-> "none"]

CountRet(n) == [kind |-> "count", count |-> n]

AllLocs(p) == {CellLoc(r, c) : r \in iter_rows(p), c \in iter_cols(p)}

\* every state a cell of the given width can be in
CellStates(w) ==
    {Enabled(w, b) : b \in SUBSET (0 .. w - 1)} \cup {SoloSel(w, i) : i \in 0 .. w - 1}

\* the answers of a row as generation leaves them (puzzle.rs 338-339): a
\* permutation of 0..len-1
AnswerRows(len) ==
    {f \in [0 .. len - 1 -> 0 .. len - 1] : \A a, b \in 0 .. len - 1 : f[a] = f[b] => a = b}

IdentityAnswers(len) == [c \in 0 .. len - 1 |-> c]

(***************************************************************************)
(* run_inference, puzzle.rs 614-629, one action per pass of its loop.      *)
(***************************************************************************)
\* the call: considering = to_update.clone(), updates = 0
RunInference(seeds) ==
    /\ pc = "idle"
    /\ pc' = "inferring"
    /\ considering' = seeds
    /\ to_update' = seeds
    /\ updates' = 0
    /\ steps' = 0
    /\ call' = [kind |-> "run_inference", seeds |-> seeds,
                again |-> call.kind = "run_inference",
                first |-> IF call.kind = "run_inference" THEN ret.count ELSE 0]
    /\ before' = puzzle
    /\ ret' = NoRet
    /\ UNCHANGED <<puzzle, cell, undovars>>

\* one pass of the loop: one_inference_step under some iteration order
InferenceStep ==
    /\ pc = "inferring"
    /\ considering # {}
    /\ IF StepAborts(puzzle, considering)
       THEN /\ pc' = "aborted"
            /\ UNCHANGED <<puzzle, considering, to_update, updates, steps>>
       ELSE \E outcome \in StepOutcomes(puzzle, considering) :
              LET step == one_inference_step(puzzle, considering, outcome)
              IN  /\ puzzle' = step.puzzle
                  /\ considering' = step.changed
                  /\ to_update' = to_update \cup step.changed
                  /\ updates' = updates + step.updates
                  /\ steps' = steps + 1
                  /\ pc' = pc
    /\ UNCHANGED <<call, before, ret, cell, undovars>>

\* the loop's exit
InferenceReturn ==
    /\ pc = "inferring"
    /\ considering = {}
    /\ pc' = "idle"
    /\ ret' = CountRet(updates)
    /\ UNCHANGED <<puzzle, considering, to_update, updates, steps, call, before, cell, undovars>>

(***************************************************************************)
(* A clue's advance_puzzle, and its update applied as cell_update applies  *)
(* it (main.rs 1136-1138).                                                 *)
(***************************************************************************)
\* SameColumnClue::new_random, clues.rs 209-223: two or three distinct rows,
\* any column
SameColumnClues(p) ==
    {SameColumnClue(CellLoc(r1, c), r2, r3) :
       <<r1, r2, r3, c>> \in
         {q \in iter_rows(p) \X iter_rows(p) \X (iter_rows(p) \cup {NoRow}) \X iter_cols(p) :
            q[1] # q[2] /\ q[3] # q[1] /\ q[3] # q[2]}}

\* AdjacentColumnClue::new_random, clues.rs 678-690: any two rows, two
\* distinct columns
AdjacentColumnClues(p) ==
    {AdjacentColumnClue(l1, l2) :
       <<l1, l2>> \in {q \in AllLocs(p) \X AllLocs(p) : q[1].col # q[2].col}}

\* the update of an advance_puzzle result applied to the grid: the puzzle
\* after and apply's count
ApplyUpdate(p, index, op) ==
    LET r == apply(cell_selection(p, index.loc), index.index, op)
    IN  [puzzle |-> WithCell(p, index.loc, r.sel), ret |-> r.ret]

Advance(kind, clue, result) ==
    /\ pc = "idle"
    /\ call' = [kind |-> kind, clue |-> clue]
    /\ before' = puzzle
    /\ ret' = result
    /\ IF result.kind = "Panic" THEN pc' = "aborted" /\ UNCHANGED puzzle
       ELSE IF result.kind = "None" THEN UNCHANGED <<pc, puzzle>>
       ELSE IF cell_selection_mut_aborts(puzzle, result.index.loc)
            THEN pc' = "aborted" /\ UNCHANGED puzzle
            ELSE /\ puzzle' = ApplyUpdate(puzzle, result.index, result.op).puzzle
                 /\ pc' = pc
    /\ UNCHANGED <<considering, to_update, updates, steps, cell, undovars>>

AdvanceSameColumn(clue) == Advance("same_column", clue, SameColumnAdvance(puzzle, clue))

AdvanceAdjacentColumn(clue) ==
    Advance("adjacent_column", clue, AdjacentColumnAdvance(puzzle, clue))

(***************************************************************************)
(* The engine specification: advance_puzzle and run_inference as functions *)
(* of the grid.  The grid has two rows of length GridWidth and is either   *)
(* any state of row 0 over a fresh row 1, or two rows each at most one     *)
(* apply away from fresh, row 1 with any answers.                          *)
(***************************************************************************)
FreshCells(len) == [c \in 0 .. len - 1 |-> Enabled(len, 0 .. len - 1)]

NearFreshCells(len) ==
    {FreshCells(len)} \cup
    {[FreshCells(len) EXCEPT ![c] = apply(@, i, op).sel] :
       c \in 0 .. len - 1, i \in 0 .. len - 1, op \in UpdateCellIndexOperation}

TwoRows(cells0, answers0, cells1, answers1) ==
    [rows |-> [r \in 0 .. 1 |->
                 IF r = 0 THEN [cell_selection |-> cells0, cell_answers |-> answers0]
                          ELSE [cell_selection |-> cells1, cell_answers |-> answers1]],
     max_column |-> RowMaxColumn([cell_selection |-> cells0])]

EngineGrids ==
    {TwoRows(cs, IdentityAnswers(GridWidth), FreshCells(GridWidth),
             IdentityAnswers(GridWidth)) :
       cs \in [0 .. GridWidth - 1 -> CellStates(GridWidth)]}
    \cup
    {TwoRows(c0, IdentityAnswers(GridWidth), c1, a1) :
       c0 \in NearFreshCells(GridWidth), c1 \in NearFreshCells(GridWidth),
       a1 \in AnswerRows(GridWidth)}

\* the seed sets run_inference is called with: one cell, as cell_update calls
\* it (main.rs 1142-1144), or every cell of the grid.  The step keeps of a
\* seed only its row (puzzle.rs 564), so that one cell stands for its row
SeedSets(p) == {{a} : a \in {l \in AllLocs(p) : l.col = 0}} \cup {AllLocs(p)}

\* no undo tree, no pending event
NoTree == [exists |-> FALSE]

UndoIdle ==
    /\ tree = NoTree
    /\ tree_loc = [current |-> 0]
    /\ update_cell_index = <<>>
    /\ push_new_action = <<>>
    /\ fit_clicked = <<>>
    /\ inputs = 0
    /\ history = <<>>

\* run_inference's locals outside a call
InferenceIdle ==
    /\ considering = {}
    /\ to_update = {}
    /\ updates = 0
    /\ steps = 0

Init ==
    /\ puzzle \in EngineGrids
    /\ pc = "idle"
    /\ InferenceIdle
    /\ call = NoCall
    /\ before = puzzle
    /\ ret = NoRet
    /\ cell = VOID
    /\ UndoIdle

\* one call on the grid drawn: a clue's advance_puzzle with its update applied,
\* or run_inference with any seed set and then once more with the same seeds
InferenceAgain ==
    /\ call.kind = "run_inference"
    /\ ~call.again
    /\ RunInference(call.seeds)

Next ==
    \/ \E seeds \in SeedSets(puzzle) : call.kind = "none" /\ RunInference(seeds)
    \/ InferenceAgain
    \/ InferenceStep
    \/ InferenceReturn
    \/ \E clue \in SameColumnClues(puzzle) : call.kind = "none" /\ AdvanceSameColumn(clue)
    \/ \E clue \in AdjacentColumnClues(puzzle) :
         call.kind = "none" /\ AdvanceAdjacentColumn(clue)

Spec == Init /\ [][Next]_vars

(***************************************************************************)
(* Properties of the engine specification.                                 *)
(***************************************************************************)
\* the candidate set of every cell, whatever the variant that holds it
CandidateSets(p) == [l \in AllLocs(p) |-> iter_ones(cell_selection(p, l))]

\* the columns of a row in which a slot index is enabled
ColumnsOf(p, row, x) ==
    {c \in iter_cols(p) : is_enabled(cell_selection(p, CellLoc(row, c)), x)}

SlotIndices(p) == 0 .. p.max_column

\* C1: neither the update a clue's advance_puzzle returns, once applied, nor a
\* call of run_inference (at any point of its loop) leaves the grid with more
\* enabled candidate bits than it had before the call
MonotonicNarrowing ==
    (call.kind \in {"run_inference", "same_column", "adjacent_column"})
        => TotalOnes(puzzle) <= TotalOnes(before)

\* C1 witness: a run_inference of at least two passes has returned and the
\* grid has fewer enabled bits than before
NarrowedByInference ==
    /\ call.kind = "run_inference" /\ pc = "idle" /\ ret.kind = "count"
    /\ steps >= 2
    /\ TotalOnes(puzzle) < TotalOnes(before)

\* C2: run_inference terminates: every pass but the last clears at least one
\* candidate bit and none enables one, so that the passes made never exceed
\* the bits cleared plus one
InferenceTerminates ==
    (call.kind = "run_inference" /\ pc # "aborted")
        => /\ steps + TotalOnes(puzzle) <= TotalOnes(before) + 1
           /\ \A l \in AllLocs(puzzle) :
                CandidateSets(puzzle)[l] \subseteq CandidateSets(before)[l]

\* C2 witness: a run whose work set grew beyond its seeds has emptied it and
\* returned, its last pass having found nothing left to change
WorkSetEmptied ==
    /\ call.kind = "run_inference" /\ pc = "idle" /\ ret.kind = "count"
    /\ considering = {} /\ steps >= 2
    /\ to_update # call.seeds

\* the rows with a cell in the seed set
SeededRows == {l.row : l \in call.seeds}

\* a first call of run_inference has returned
FirstRunReturned ==
    call.kind = "run_inference" /\ ~call.again /\ pc = "idle" /\ ret.kind = "count"

\* column c is left Solo on x, and x disabled in every other column of the row
PinnedTo(p, row, c, x) ==
    /\ is_solo(cell_selection(p, CellLoc(row, c)), x)
    /\ ColumnsOf(p, row, x) = {c}

\* C3 as stated: whenever x is enabled in exactly one column c of a seeded
\* row, run_inference leaves c Solo on x and x disabled in the other columns
HiddenSinglePinned ==
    FirstRunReturned =>
        \A row \in SeededRows : \A x \in SlotIndices(before) : \A c \in iter_cols(before) :
            ColumnsOf(before, row, x) = {c} => PinnedTo(puzzle, row, c, x)

\* C3 amended: the same, for an x that is the only slot index whose one
\* enabling column is c
HiddenSinglePinnedWhenAlone ==
    FirstRunReturned =>
        \A row \in SeededRows : \A x \in SlotIndices(before) : \A c \in iter_cols(before) :
            (/\ ColumnsOf(before, row, x) = {c}
             /\ \A y \in SlotIndices(before) :
                  ColumnsOf(before, row, y) = {c} => y = x)
                => PinnedTo(puzzle, row, c, x)

\* C3 witness: a hidden single that was not pinned before the call (its column
\* had further candidates) is pinned after it
HiddenSingleWasPinned ==
    /\ FirstRunReturned
    /\ \E row \in SeededRows : \E x \in SlotIndices(before) : \E c \in iter_cols(before) :
         /\ ColumnsOf(before, row, x) = {c}
         /\ \A y \in SlotIndices(before) : ColumnsOf(before, row, y) = {c} => y = x
         /\ ~is_solo(cell_selection(before, CellLoc(row, c)), x)
         /\ PinnedTo(puzzle, row, c, x)

\* C4: a second run_inference with the same seeds, on the grid the first left,
\* changes no candidate set and returns 0
InferenceIdempotent ==
    (call.kind = "run_inference" /\ call.again)
        => /\ CandidateSets(puzzle) = CandidateSets(before)
           /\ updates = 0
           /\ (ret.kind = "count" => ret.count = 0)

\* C4 witness: the second call has returned, after a first that made changes
SecondRunReturned ==
    /\ call.kind = "run_inference" /\ call.again
    /\ pc = "idle" /\ ret.kind = "count"
    /\ call.first > 0

(***************************************************************************)
(* The cell specification: one PuzzleCellSelection, fresh as new_shuffled  *)
(* makes it (puzzle.rs 340-353) or the VOID constant (puzzle.rs 186), and  *)
(* any sequence of apply calls on it with indices below the cell width.    *)
(***************************************************************************)
CellIndices == 0 .. CellWidth - 1

CellApply(index, op) ==
    LET r == apply(cell, index, op)
    IN  /\ cell' = r.sel
        /\ call' = [kind |-> "apply", sel |-> cell, index |-> index, op |-> op]
        /\ ret' = CountRet(r.ret)
        /\ UNCHANGED <<puzzle, pc, considering, to_update, updates, steps, before, undovars>>

InitCell ==
    /\ cell \in {Enabled(CellWidth, CellIndices), VOID}
    /\ puzzle = EmptyPuzzle
    /\ pc = "idle"
    /\ InferenceIdle
    /\ call = NoCall
    /\ before = puzzle
    /\ ret = NoRet
    /\ UndoIdle

NextCell == \E index \in CellIndices, op \in UpdateCellIndexOperation : CellApply(index, op)

SpecCell == InitCell /\ [][NextCell]_vars

\* C10: in every state the cell reaches, for every index, is_solo implies
\* is_enabled and a count_ones of exactly 1
SoloIsEnabledAlone ==
    \A i \in 0 .. CellWidth :
        is_solo(cell, i) => is_enabled(cell, i) /\ count_ones(cell) = 1

\* C10 witness: apply calls have left a bitset, not the Solo variant, with one
\* bit, which is_solo reports, out of a cell that had several
BitsetLeftSolo ==
    /\ call.kind = "apply" /\ call.op \in {"Clear", "Toggle"}
    /\ count_ones(call.sel) = 2
    /\ cell.tag = "Enabled"
    /\ \E i \in CellIndices : is_solo(cell, i)

\* the other representation of a cell with one enabled index: the bitset of a
\* Solo cell, the Solo of a one-bit bitset
Twin(sel) ==
    IF sel.tag = "Solo" THEN Enabled(sel.width, {sel.index})
    ELSE SoloSel(sel.width, CHOOSE i \in sel.bits : TRUE)

\* the answers of every query of a cell, for the indices up to the width
Queries(sel) ==
    [is_enabled  |-> {i \in 0 .. CellWidth : is_enabled(sel, i)},
     is_solo     |-> {i \in 0 .. CellWidth : is_solo(sel, i)},
     is_any_solo |-> is_any_solo(sel),
     count_ones  |-> count_ones(sel),
     iter_ones   |-> iter_ones(sel),
     width       |-> width(sel)]

\* C11: a Solo cell and the bitset with only its bit answer every query alike,
\* and a non-Solo op applied to either returns the same count and leaves the
\* same candidate set; so does the cell a non-Solo op on a Solo cell has left
SoloBitsetEquivalence ==
    /\ (~is_void(cell) /\ count_ones(cell) = 1) =>
          /\ Queries(cell) = Queries(Twin(cell))
          /\ \A i \in CellIndices : \A op \in UpdateCellIndexOperation \ {"Solo"} :
                /\ apply(cell, i, op).ret = apply(Twin(cell), i, op).ret
                /\ iter_ones(apply(cell, i, op).sel) = iter_ones(apply(Twin(cell), i, op).sel)
    /\ (call.kind = "apply" /\ call.sel.tag = "Solo" /\ call.op # "Solo") =>
          /\ iter_ones(cell) =
                iter_ones(apply_enabled(Enabled(call.sel.width, {call.sel.index}),
                                        call.index, call.op).sel)
          /\ ret = CountRet(apply_enabled(Enabled(call.sel.width, {call.sel.index}),
                                          call.index, call.op).ret)

\* C11 witness: Set of another index on a Solo cell has left a bitset of two
\* bits, the one the cell was pinned to among them
SoloBitKept ==
    /\ call.kind = "apply" /\ call.sel.tag = "Solo" /\ call.op = "Set"
    /\ call.index # call.sel.index
    /\ cell = Enabled(CellWidth, {call.sel.index, call.index})
    /\ ret = CountRet(1)

\* the slot indices whose enabled status differs between two cells
Differing(a, b) == (iter_ones(a) \ iter_ones(b)) \cup (iter_ones(b) \ iter_ones(a))

\* C18: on a cell that is not Void, apply returns the number of slot indices
\* whose enabled status the call changed, which for Clear, Set and Toggle is
\* 0 or 1
ApplyCountsChanges ==
    (call.kind = "apply" /\ ~is_void(call.sel)) =>
        /\ ret = CountRet(Cardinality(Differing(call.sel, cell)))
        /\ call.op \in {"Clear", "Set", "Toggle"} => ret.count \in {0, 1}

\* C18 witness: a Solo on an index that was not enabled, in a cell with two
\* others, has returned 3
SoloChangedThree ==
    /\ call.kind = "apply" /\ call.op = "Solo"
    /\ count_ones(call.sel) = 2 /\ ~is_enabled(call.sel, call.index)
    /\ ret = CountRet(3)

\* C19 as stated: Solo on a cell that is not Void leaves it Solo on the index,
\* at the same width, and returns the number of bits enabled before less one
SoloReportsCountLessOne ==
    (call.kind = "apply" /\ call.op = "Solo" /\ ~is_void(call.sel)) =>
        /\ cell = SoloSel(width(call.sel), call.index)
        /\ ret.count + 1 = count_ones(call.sel)

\* C19 amended: the same, the count being that of the bits enabled before
\* less one where the index was enabled and plus one where it was not
SoloReportsCountAdjusted ==
    (call.kind = "apply" /\ call.op = "Solo" /\ ~is_void(call.sel)) =>
        /\ cell = SoloSel(width(call.sel), call.index)
        /\ ret.count = IF is_enabled(call.sel, call.index)
                       THEN count_ones(call.sel) - 1
                       ELSE count_ones(call.sel) + 1

\* C19 witness: Solo on an enabled index of a bitset with all its bits
SoloOfFullBitset ==
    /\ call.kind = "apply" /\ call.op = "Solo"
    /\ call.sel = Enabled(CellWidth, CellIndices)
    /\ cell = SoloSel(CellWidth, call.index)
    /\ ret = CountRet(CellWidth - 1)

(***************************************************************************)
(* The location specification: one apply through Puzzle::cell_selection_mut *)
(* (as cell_update makes it, main.rs 1137-1138) at any location of a row,  *)
(* the columns next to the row's range included.  LCol is an isize, so the *)
(* column left of column 0 is a location too.                              *)
(***************************************************************************)
\* the locations of the grid's rows, one column beyond the range each side
NearLocs(p) == {CellLoc(r, c) : r \in iter_rows(p), c \in -1 .. p.max_column + 1}

\* the locations whose selection is the VOID constant
VoidLocs(p) == {l \in NearLocs(p) : is_void(cell_selection(p, l))}

ApplyAt(index, op) ==
    /\ pc = "idle"
    /\ call' = [kind |-> "apply_at", index |-> index, op |-> op]
    /\ before' = puzzle
    /\ IF cell_selection_mut_aborts(puzzle, index.loc)
       THEN pc' = "aborted" /\ UNCHANGED <<puzzle, ret>>
       ELSE /\ puzzle' = ApplyUpdate(puzzle, index, op).puzzle
            /\ ret' = CountRet(ApplyUpdate(puzzle, index, op).ret)
            /\ pc' = pc
    /\ UNCHANGED <<considering, to_update, updates, steps, cell, undovars>>

LocationGrids ==
    {TwoRows(c0, IdentityAnswers(GridWidth), FreshCells(GridWidth),
             IdentityAnswers(GridWidth)) : c0 \in NearFreshCells(GridWidth)}

InitLocation ==
    /\ puzzle \in LocationGrids
    /\ pc = "idle"
    /\ InferenceIdle
    /\ call = NoCall
    /\ before = puzzle
    /\ ret = NoRet
    /\ cell = VOID
    /\ UndoIdle

NextLocation ==
    \E loc \in NearLocs(puzzle), i \in SlotIndices(puzzle), op \in UpdateCellIndexOperation :
        call.kind = "none" /\ ApplyAt(CellLocIndex(loc, i), op)

SpecLocation == InitLocation /\ [][NextLocation]_vars

\* C9 as stated: at every location outside the column range is_enabled and
\* is_solo are false for every index, and an apply there returns 0, changes no
\* cell and does not abort
VoidAbsorption ==
    /\ \A l \in VoidLocs(puzzle) : \A i \in SlotIndices(puzzle) :
          /\ ~is_enabled(cell_selection(puzzle, l), i)
          /\ ~is_solo(cell_selection(puzzle, l), i)
    /\ (call.kind = "apply_at" /\ call.index.loc \in VoidLocs(before))
          => /\ pc # "aborted"
             /\ ret = CountRet(0)
             /\ puzzle = before

(***************************************************************************)
(* Puzzle::run_inference as one call, puzzle.rs 614-629: every result the  *)
(* loop can return, over the iteration orders of its passes.               *)
(***************************************************************************)
RECURSIVE InferenceRuns(_, _, _, _)
InferenceRuns(p, work, touched, n) ==
    IF work = {}
    THEN {[puzzle |-> p, to_update |-> touched, updates |-> n, aborted |-> FALSE]}
    ELSE IF StepAborts(p, work)
    THEN {[puzzle |-> p, to_update |-> touched, updates |-> n, aborted |-> TRUE]}
    ELSE UNION {LET step == one_inference_step(p, work, outcome)
                IN  InferenceRuns(step.puzzle, step.changed, touched \cup step.changed,
                                  n + step.updates) :
                  outcome \in StepOutcomes(p, work)}

run_inference(p, seeds) == InferenceRuns(p, seeds, seeds, 0)

(***************************************************************************)
(* Properties of the engine specification stated of run_inference as one   *)
(* call.                                                                   *)
(***************************************************************************)
\* what a call of run_inference comes to: the candidates of every cell and the
\* count returned, or the abort
Outcome(run) ==
    [aborted |-> run.aborted, cells |-> CandidateSets(run.puzzle), count |-> run.updates]

\* C25: whatever the grid and the seeds, every order the forced operations of
\* a row and the rows are iterated in brings run_inference to the same
\* candidates in every cell and the same returned count
InferenceDeterministic ==
    call.kind = "run_inference" =>
        Cardinality({Outcome(run) : run \in run_inference(before, call.seeds)}) = 1

\* C26: run_inference leaves every row without a seed as it was, cell for
\* cell, puts no cell of such a row into to_update, and leaves the answers of
\* every row as they were
RowLocality ==
    call.kind = "run_inference" =>
        /\ \A row \in iter_rows(before) \ SeededRows : puzzle.rows[row] = before.rows[row]
        /\ \A row \in iter_rows(before) :
             puzzle.rows[row].cell_answers = before.rows[row].cell_answers
        /\ DOMAIN puzzle.rows = DOMAIN before.rows
        /\ {l.row : l \in to_update} \subseteq SeededRows

\* C26 witness: a call has narrowed its seeded row and returned, and left
\* alone a row that a call seeded there would have narrowed
OtherRowLeftAlone ==
    /\ FirstRunReturned
    /\ TotalOnes(puzzle) < TotalOnes(before)
    /\ \E row \in iter_rows(before) \ SeededRows :
         /\ puzzle.rows[row] = before.rows[row]
         /\ \E run \in run_inference(before, {CellLoc(row, 0)}) : run.updates > 0

(***************************************************************************)
(* The ragged specification: run_inference on a puzzle whose rows differ   *)
(* in width, as add_row builds it (puzzle.rs 434-439): one row of          *)
(* GridWidth columns and one of a column more, in either order, at most    *)
(* one apply away from fresh.                                              *)
(***************************************************************************)
\* the cells the rows have: the locations of the grid less the columns a
\* narrower row lacks
RowLocs(p) == {l \in AllLocs(p) : InRow(p, l)}

RaggedGrids ==
    LET built(w0, w1) == add_row(add_row(EmptyPuzzle, NewRow(w0, IdentityAnswers(w0))),
                                 NewRow(w1, IdentityAnswers(w1)))
        fresh == {built(GridWidth, GridWidth + 1), built(GridWidth + 1, GridWidth)}
    IN  fresh \cup
        {ApplyUpdate(p, CellLocIndex(l, i), op).puzzle :
           <<p, l, i, op>> \in
             {q \in fresh \X {CellLoc(r, c) : r \in 0 .. 1, c \in 0 .. GridWidth}
                          \X (0 .. GridWidth) \X UpdateCellIndexOperation :
                /\ InRow(q[1], q[2])
                /\ q[3] < RowLen(q[1].rows[q[2].row])}}

InitRagged ==
    /\ puzzle \in RaggedGrids
    /\ pc = "idle"
    /\ InferenceIdle
    /\ call = NoCall
    /\ before = puzzle
    /\ ret = NoRet
    /\ cell = VOID
    /\ UndoIdle

\* one call of run_inference seeded with one cell, as cell_update calls it
\* (main.rs 1142-1144)
NextRagged ==
    \/ \E l \in RowLocs(puzzle) : call.kind = "none" /\ RunInference({l})
    \/ InferenceStep
    \/ InferenceReturn

SpecRagged == InitRagged /\ [][NextRagged]_vars

\* the rows narrower than the grid
NarrowRows(p) == {r \in iter_rows(p) : RowMaxColumn(p.rows[r]) < p.max_column}

\* C27: run_inference seeded in a row narrower than the widest row does not
\* abort, also when the row has a forced single to apply, and changes no cell
\* of another row
RaggedInferenceCompletes ==
    (call.kind = "run_inference" /\ SeededRows \subseteq NarrowRows(before)) =>
        /\ pc # "aborted"
        /\ \A row \in iter_rows(before) \ SeededRows : puzzle.rows[row] = before.rows[row]

(***************************************************************************)
(* The undo tree, undo.rs.  A petgraph Graph is the sequence of its node   *)
(* weights and the sequence of its edges, each in order of insertion; a    *)
(* NodeIndex is a position in the first, counted from 1.                   *)
(***************************************************************************)
UpdateCellIndex(index, op) == [index |-> index, op |-> op]

Action(update, update_count, inferred_count) ==
    [update |-> update, update_count |-> update_count, inferred_count |-> inferred_count]

PushNewAction(new_state, action) == [new_state |-> new_state, action |-> action]

\* spawn_row, main.rs 666-669: a graph of one node, the root, holding a clone
\* of the puzzle
NewTree(p) == [exists |-> TRUE, nodes |-> <<p>>, edges |-> <<>>, root |-> 1]

add_node(t, weight) == [t EXCEPT !.nodes = Append(@, weight)]

add_edge(t, a, b, weight) ==
    [t EXCEPT !.edges = Append(@, [source |-> a, target |-> b, weight |-> weight])]

\* edges_directed(node, Outgoing) and edges_directed(node, Incoming), as
\* positions in the sequence of edges
Outgoing(t, node) == {e \in DOMAIN t.edges : t.edges[e].source = node}

Incoming(t, node) == {e \in DOMAIN t.edges : t.edges[e].target = node}

\* no node
NoNode == 0

TopButtonAction == {"Undo", "Redo", "Clue"}

\* the Undo arm, undo.rs 87-98: the target of the first outgoing edge.  A
\* node gets its one outgoing edge when add_undo_state creates it, so that
\* the first is the only one
UndoTarget(t, current) ==
    IF Outgoing(t, current) = {} THEN NoNode
    ELSE t.edges[CHOOSE e \in Outgoing(t, current) :
                   \A f \in Outgoing(t, current) : f <= e].target

\* the Redo arm taking the edge's target where the source has its source
RedoTargetOfEdge(t, current) ==
    IF Cardinality(Incoming(t, current)) # 1 THEN NoNode
    ELSE t.edges[CHOOSE e \in Incoming(t, current) : TRUE].target

\* the Redo arm taking the first incoming edge however many there are
RedoTargetFirst(t, current) ==
    IF Incoming(t, current) = {} THEN NoNode
    ELSE t.edges[CHOOSE e \in Incoming(t, current) :
                   \A f \in Incoming(t, current) : e <= f].source

\* the Redo arm, undo.rs 99-111: the source of the incoming edge if there is
\* exactly one
RedoTarget(t, current) ==
    IF Cardinality(Incoming(t, current)) # 1 THEN NoNode
    ELSE t.edges[CHOOSE e \in Incoming(t, current) : TRUE].source

\* one event of the loop with the cursor moved and the live puzzle left as it is
AdjustOneKeepingPuzzle(t, st, action) ==
    LET new_node == CASE action = "Undo" -> UndoTarget(t, st.current)
                      [] action = "Redo" -> RedoTarget(t, st.current)
                      [] OTHER           -> NoNode
    IN  IF new_node = NoNode THEN st
        ELSE [current |-> new_node, puzzle |-> st.puzzle]

\* one event of the loop with a refused event sent back to the root
AdjustOneResetting(t, st, action) ==
    LET new_node == CASE action = "Undo" -> UndoTarget(t, st.current)
                      [] action = "Redo" -> RedoTarget(t, st.current)
                      [] OTHER           -> NoNode
    IN  IF new_node = NoNode THEN [current |-> t.root, puzzle |-> t.nodes[t.root]]
        ELSE [current |-> new_node, puzzle |-> t.nodes[new_node]]

\* one event of adjust_undo_state's loop, undo.rs 84-126, on the cursor and the
\* live puzzle: a refused event continues with nothing written
AdjustOne(t, st, action) ==
    LET new_node == CASE action = "Undo" -> UndoTarget(t, st.current)
                      [] action = "Redo" -> RedoTarget(t, st.current)
                      [] OTHER           -> NoNode
    IN  IF new_node = NoNode THEN st
        ELSE [current |-> new_node, puzzle |-> t.nodes[new_node]]

\* what adjust_undo_state did with one Undo or Redo event: the cursor and the
\* live puzzle before and after, and how many edges the tree then had
AdjustEntry(t, st, action, next) ==
    [kind   |-> action,
     ok     |-> IF action = "Undo" THEN UndoTarget(t, st.current) # NoNode
                                   ELSE RedoTarget(t, st.current) # NoNode,
     from   |-> st.current, to |-> next.current,
     before |-> st.puzzle,  after |-> next.puzzle,
     edges  |-> Len(t.edges)]

\* adjust_undo_state over the events it reads, undo.rs 68-127
RECURSIVE AdjustAll(_, _, _, _)
AdjustAll(t, st, events, log) ==
    IF events = <<>> THEN [current |-> st.current, puzzle |-> st.puzzle, log |-> log]
    ELSE LET action == Head(events)
             next   == AdjustOne(t, st, action)
         IN  AdjustAll(t, next, Tail(events),
                       IF action \in {"Undo", "Redo"}
                       THEN Append(log, AdjustEntry(t, st, action, next))
                       ELSE log)

\* add_undo_state with its edge the other way round: from the cursor's node to
\* the new one
RECURSIVE AddAllEdgeReversed(_, _, _, _)
AddAllEdgeReversed(t, current, events, log) ==
    IF events = <<>> THEN [tree |-> t, current |-> current, log |-> log]
    ELSE LET ev       == Head(events)
             new_node == Len(t.nodes) + 1
         IN  AddAllEdgeReversed(
                    add_edge(add_node(t, ev.new_state), current, new_node, ev.action),
                    new_node, Tail(events),
                    Append(log, [kind |-> "Push", ok |-> TRUE, from |-> current,
                                 to |-> new_node, edges |-> Len(t.edges)]))

\* add_undo_state over the events it reads, undo.rs 39-66
RECURSIVE AddAll(_, _, _, _)
AddAll(t, current, events, log) ==
    IF events = <<>> THEN [tree |-> t, current |-> current, log |-> log]
    ELSE LET ev       == Head(events)
             new_node == Len(t.nodes) + 1
         IN  AddAll(add_edge(add_node(t, ev.new_state), new_node, current, ev.action),
                    new_node, Tail(events),
                    Append(log, [kind |-> "Push", ok |-> TRUE, from |-> current,
                                 to |-> new_node, edges |-> Len(t.edges)]))

\* cell_update sending a PushNewAction for every update it reads, those
\* whose apply returned 0 included
RECURSIVE CellUpdatesPushingAll(_, _, _)
CellUpdatesPushingAll(p, events, pushes) ==
    IF events = <<>> THEN {[puzzle |-> p, pushes |-> pushes, aborted |-> FALSE]}
    ELSE LET update == Head(events)
         IN  IF cell_selection_mut_aborts(p, update.index.loc)
             THEN {[puzzle |-> p, pushes |-> pushes, aborted |-> TRUE]}
             ELSE LET applied == ApplyUpdate(p, update.index, update.op)
                  IN  UNION {
                        IF run.aborted
                        THEN {[puzzle |-> run.puzzle, pushes |-> pushes,
                               aborted |-> TRUE]}
                        ELSE CellUpdatesPushingAll(run.puzzle, Tail(events),
                               Append(pushes,
                                 PushNewAction(run.puzzle,
                                   Action(update, applied.ret, run.updates)))) :
                        run \in run_inference(applied.puzzle, {update.index.loc})}

\* cell_update over the events it reads, main.rs 1129-1158: the puzzle after,
\* the PushNewAction events sent, and whether it aborted, for every result
\* run_inference can have
RECURSIVE CellUpdates(_, _, _)
CellUpdates(p, events, pushes) ==
    IF events = <<>> THEN {[puzzle |-> p, pushes |-> pushes, aborted |-> FALSE]}
    ELSE LET update == Head(events)
         IN  IF cell_selection_mut_aborts(p, update.index.loc)
             THEN {[puzzle |-> p, pushes |-> pushes, aborted |-> TRUE]}
             ELSE LET applied == ApplyUpdate(p, update.index, update.op)
                  IN  IF applied.ret = 0
                      THEN CellUpdates(applied.puzzle, Tail(events), pushes)
                      ELSE UNION {
                             IF run.aborted
                             THEN {[puzzle |-> run.puzzle, pushes |-> pushes,
                                    aborted |-> TRUE]}
                             ELSE CellUpdates(run.puzzle, Tail(events),
                                    Append(pushes,
                                      PushNewAction(run.puzzle,
                                        Action(update, applied.ret, run.updates)))) :
                             run \in run_inference(applied.puzzle, {update.index.loc})}

(***************************************************************************)
(* The program specification: the three systems of the Update schedule     *)
(* that share the puzzle and the undo tree.  None is ordered against       *)
(* another (main.rs 129-141, undo.rs 133), so that a frame runs each once  *)
(* in any order; the user's events arrive between frames.  A system is a   *)
(* function of the world: the components and the events it reads and       *)
(* writes.                                                                 *)
(***************************************************************************)
Systems == {"cell_update", "add_undo_state", "adjust_undo_state"}

World ==
    [puzzle |-> puzzle, pc |-> pc, tree |-> tree, tree_loc |-> tree_loc,
     update_cell_index |-> update_cell_index, push_new_action |-> push_new_action,
     fit_clicked |-> fit_clicked, history |-> history]

\* cell_update, main.rs 1129-1158
cell_update(w) ==
    {[w EXCEPT !.puzzle = out.puzzle,
               !.push_new_action = @ \o out.pushes,
               !.pc = IF out.aborted THEN "aborted" ELSE @,
               !.update_cell_index = <<>>] :
       out \in CellUpdates(w.puzzle, w.update_cell_index, <<>>)}

\* add_undo_state, undo.rs 39-66
add_undo_state(w) ==
    IF ~w.tree.exists THEN {w}
    ELSE LET out == AddAll(w.tree, w.tree_loc.current, w.push_new_action, <<>>)
         IN  {[w EXCEPT !.tree = out.tree,
                        !.tree_loc = [current |-> out.current],
                        !.history = @ \o out.log,
                        !.push_new_action = <<>>]}

\* adjust_undo_state, undo.rs 68-127
adjust_undo_state(w) ==
    IF ~w.tree.exists THEN {w}
    ELSE LET out == AdjustAll(w.tree,
                              [current |-> w.tree_loc.current, puzzle |-> w.puzzle],
                              w.fit_clicked, <<>>)
         IN  {[w EXCEPT !.tree_loc = [current |-> out.current],
                        !.puzzle = out.puzzle,
                        !.history = @ \o out.log,
                        !.fit_clicked = <<>>]}

\* a panic in a system ends the program: the systems after it do not run
RunSystem(w, system) ==
    IF w.pc = "aborted" THEN {w}
    ELSE CASE system = "cell_update"       -> cell_update(w)
           [] system = "add_undo_state"    -> add_undo_state(w)
           [] system = "adjust_undo_state" -> adjust_undo_state(w)

\* the worlds a frame can end in when its systems run in the given order
RECURSIVE RunSchedule(_, _)
RunSchedule(worlds, order) ==
    IF order = <<>> THEN worlds
    ELSE RunSchedule(UNION {RunSystem(w, Head(order)) : w \in worlds}, Tail(order))

ProgramFrame == UNCHANGED <<considering, to_update, updates, steps, call, before, ret, cell>>

\* one pass of the Update schedule
Frame(order) ==
    /\ pc = "idle"
    /\ \E w \in RunSchedule({World}, order) :
         /\ puzzle' = w.puzzle
         /\ pc' = w.pc
         /\ tree' = w.tree
         /\ tree_loc' = w.tree_loc
         /\ update_cell_index' = w.update_cell_index
         /\ push_new_action' = w.push_new_action
         /\ fit_clicked' = w.fit_clicked
         /\ history' = w.history
    /\ UNCHANGED inputs
    /\ ProgramFrame

\* the updates the user drags out of a cell: the first slot index of the
\* first cell, cleared or pinned
DragMenu ==
    {UpdateCellIndex(CellLocIndex(CellLoc(0, 0), 0), op) : op \in {"Clear", "Solo"}}

\* cell_release_drag, main.rs 1104-1127
Drag(update) ==
    /\ pc = "idle"
    /\ inputs < MaxInputs
    /\ inputs' = inputs + 1
    /\ update_cell_index' = Append(update_cell_index, update)
    /\ UNCHANGED <<puzzle, pc, tree, tree_loc, push_new_action, fit_clicked, history>>
    /\ ProgramFrame

\* interact_click_up on a top button, fit.rs 583-598
Click(action) ==
    /\ pc = "idle"
    /\ inputs < MaxInputs
    /\ inputs' = inputs + 1
    /\ fit_clicked' = Append(fit_clicked, action)
    /\ UNCHANGED <<puzzle, pc, tree, tree_loc, update_cell_index, push_new_action, history>>
    /\ ProgramFrame

\* the grid spawn_row has built when it creates the tree
SpawnedGrid ==
    TwoRows(FreshCells(GridWidth), IdentityAnswers(GridWidth),
            FreshCells(GridWidth), IdentityAnswers(GridWidth))

\* the cells the first hint is drawn from: the first of each row
HintLocs(p) == {l \in AllLocs(p) : l.col = 0}

\* spawn_row's last act, main.rs 666-681: the tree with the puzzle as its
\* root, the cursor on it, and the first hint sent: Solo on the answer of a
\* random cell
InitProgram ==
    /\ puzzle = SpawnedGrid
    /\ pc = "idle"
    /\ InferenceIdle
    /\ call = NoCall
    /\ before = puzzle
    /\ ret = NoRet
    /\ cell = VOID
    /\ tree = NewTree(puzzle)
    /\ tree_loc = [current |-> tree.root]
    /\ \E loc \in HintLocs(puzzle) :
         update_cell_index = <<UpdateCellIndex(answer_index(puzzle, loc), "Solo")>>
    /\ push_new_action = <<>>
    /\ fit_clicked = <<>>
    /\ inputs = 0
    /\ history = <<>>

NextProgram ==
    \/ \E order \in Orders(Systems) : Frame(order)
    \/ \E update \in DragMenu : Drag(update)
    \/ \E action \in TopButtonAction \ {"Clue"} : Click(action)

SpecProgram == InitProgram /\ [][NextProgram]_vars

(***************************************************************************)
(* Properties of the program specification.  The history holds one entry   *)
(* for each PushNewAction, Undo and Redo event the undo systems have read, *)
(* in the order they read them.  The tree only grows, at the end of its    *)
(* sequences, so that the tree an entry saw is a prefix of the present one.*)
(***************************************************************************)
\* the edges into and out of a node among the first n edges of the tree
IncomingThen(node, n) == {e \in 1 .. n : tree.edges[e].target = node}

OutgoingThen(node, n) == {e \in 1 .. n : tree.edges[e].source = node}

Kinds(h) == [i \in DOMAIN h |-> h[i].kind]

\* k times the one kind, then k times the other
PushesThenUndos(k) == [i \in 1 .. 2 * k |-> IF i <= k THEN "Push" ELSE "Undo"]

\* C5: whenever what the undo systems have done since the tree was created
\* is k >= 1 pushes and then k undos, the last undo is accepted and leaves the
\* cursor on the root and the live puzzle equal to the root's snapshot
UndoRoundTrip ==
    \A k \in 1 .. Len(history) :
        (2 * k <= Len(history) /\ Kinds(SubSeq(history, 1, 2 * k)) = PushesThenUndos(k))
            => /\ history[2 * k].ok
               /\ history[2 * k].to = tree.root
               /\ history[2 * k].after = tree.nodes[tree.root]

\* C5 witness: two pushes and two undos, and the puzzle is the root's again,
\* which the pushed snapshots were not
TwoPushesTwoUndos ==
    /\ Kinds(history) = PushesThenUndos(2)
    /\ tree_loc.current = tree.root
    /\ puzzle = tree.nodes[tree.root]
    /\ tree.nodes[2] # tree.nodes[1] /\ tree.nodes[3] # tree.nodes[1]

\* no node had two futures when the tree had its first n edges
Unbranched(n) == \A node \in DOMAIN tree.nodes : Cardinality(IncomingThen(node, n)) <= 1

\* C6: in an unbranched history, a redo read right after an accepted undo is
\* accepted, puts the cursor back on the node the undo left and makes the
\* live puzzle that node's snapshot; a redo at the root restores the snapshot
\* first pushed onto it
RedoInvertsUndo ==
    \A i \in DOMAIN history :
        LET r == history[i]
        IN  (r.kind = "Redo" /\ Unbranched(r.edges))
              => /\ (i > 1 /\ history[i - 1].kind = "Undo" /\ history[i - 1].ok)
                      => /\ r.ok
                         /\ r.to = history[i - 1].from
                         /\ r.after = tree.nodes[history[i - 1].from]
                 /\ (r.from = tree.root /\ IncomingThen(tree.root, r.edges) # {})
                      => /\ r.ok
                         /\ \A e \in IncomingThen(tree.root, r.edges) :
                              /\ r.to = tree.edges[e].source
                              /\ r.after = tree.nodes[tree.edges[e].source]

\* C6 witness: after two pushes, an undo from the second snapshot and a redo
\* back to it, the puzzle being that snapshot again
UndoneAndRedone ==
    /\ Kinds(history) = <<"Push", "Push", "Undo", "Redo">>
    /\ history[3].from = 3 /\ history[3].to = 2
    /\ tree_loc.current = 3
    /\ puzzle = tree.nodes[3]
    /\ tree.nodes[3] # tree.nodes[2]

\* C7: a redo is accepted only at a node with exactly one incoming edge, and
\* at a node with two futures it is refused and leaves the cursor there
RedoAmbiguityGuard ==
    \A i \in DOMAIN history :
        LET r == history[i]
            n == Cardinality(IncomingThen(r.from, r.edges))
        IN  r.kind = "Redo"
              => /\ (r.to # r.from => n = 1)
                 /\ (n >= 2 => ~r.ok /\ r.to = r.from)

\* C7 witness: a redo was read at a node that an undo had gone back to and a
\* second push had left again, and was refused
RedoRefusedAtBranch ==
    \E i \in DOMAIN history :
        /\ history[i].kind = "Redo"
        /\ Cardinality(IncomingThen(history[i].from, history[i].edges)) = 2
        /\ ~history[i].ok
        /\ tree_loc.current = history[i].from

\* an undo or redo the claim calls refused: an undo at a node with no outgoing
\* edge, a redo at a node with no incoming edge or several
Refused(e) ==
    \/ e.kind = "Undo" /\ OutgoingThen(e.from, e.edges) = {}
    \/ e.kind = "Redo" /\ Cardinality(IncomingThen(e.from, e.edges)) # 1

\* a frame in which the undo systems read refused events and nothing else,
\* and cell_update read nothing
OnlyRefusals ==
    /\ Len(history') > Len(history)
    /\ \A i \in Len(history) + 1 .. Len(history') : Refused(history[i])'
    /\ update_cell_index = <<>>

\* C8: a refused undo or redo leaves the cursor and the live puzzle as they
\* were and does not abort, and a frame of refusals alone changes neither the
\* cursor, the tree nor the puzzle
RefusedIsNoOp ==
    [][/\ \A i \in Len(history) + 1 .. Len(history') :
             Refused(history[i])'
               => /\ history'[i].to = history'[i].from
                  /\ history'[i].after = history'[i].before
                  /\ pc' # "aborted"
       /\ OnlyRefusals => UNCHANGED <<tree_loc, tree, puzzle>>]_vars

\* C8 witness: an undo was refused at the root and a redo at a node with no
\* future, and the cursor and puzzle are where the last of them found them
UndoAndRedoRefused ==
    /\ \E i \in DOMAIN history :
         history[i].kind = "Undo" /\ ~history[i].ok /\ history[i].from = tree.root
    /\ \E i \in DOMAIN history :
         /\ history[i].kind = "Redo" /\ ~history[i].ok
         /\ IncomingThen(history[i].from, history[i].edges) = {}
    /\ ~history[Len(history)].ok
    /\ tree_loc.current = history[Len(history)].from
    /\ puzzle = history[Len(history)].before

\* the entries a step adds to the history
NewEntries == Len(history) + 1 .. Len(history')

\* the grids cell_update may find when it runs in a frame: the live puzzle, or
\* the one adjust_undo_state has written before it, after add_undo_state or
\* not, when it had an event to read
SeenByCellUpdate ==
    IF fit_clicked = <<>> THEN {puzzle}
    ELSE {w.puzzle : w \in RunSchedule({World}, <<>>)
                           \cup RunSchedule({World}, <<"adjust_undo_state">>)
                           \cup RunSchedule({World}, <<"add_undo_state", "adjust_undo_state">>)}

\* the PushNewAction events cell_update sends for the updates it reads on
\* the grid p: none for an update whose apply reports no changed bit, and for
\* each other one event, with the update and the count, whose snapshot is the
\* grid the next update is applied to
RECURSIVE SentFor(_, _, _)
SentFor(p, events, sent) ==
    IF events = <<>> THEN sent = <<>>
    ELSE LET u == Head(events)
             r == apply(cell_selection(p, u.index.loc), u.index.index, u.op)
         IN  IF r.ret = 0
             THEN SentFor(WithCell(p, u.index.loc, r.sel), Tail(events), sent)
             ELSE /\ sent # <<>>
                  /\ Head(sent).action.update = u
                  /\ Head(sent).action.update_count = r.ret
                  /\ SentFor(Head(sent).new_state, Tail(events), Tail(sent))

\* a snapshot taken after the update of its action, which changed a bit, and
\* the inference that follows it: inference finds nothing more to do
PostInference(snapshot, action) ==
    /\ action.update_count >= 1
    /\ \A run \in run_inference(snapshot, {action.update.index.loc}) :
         /\ ~run.aborted /\ run.updates = 0
         /\ CandidateSets(run.puzzle) = CandidateSets(snapshot)

\* the node of the tree last added, with the edge added with it
NewestPostInference ==
    Len(tree.nodes) >= 2 =>
        /\ Len(tree.edges) = Len(tree.nodes) - 1
        /\ PostInference(tree.nodes[Len(tree.nodes)], tree.edges[Len(tree.edges)].weight)

\* C21: the undo tree grows by one node and one edge for each accepted update
\* and by nothing else: the nodes and edges a step adds are as many as the
\* PushNewAction events read, each node holds a snapshot taken after inference,
\* its edge leads from it to the node the cursor was on and the cursor moves
\* onto it; the nodes added and the events still to be read are those that
\* were to be read and then one for each update accepted, none for an update
\* that changes no bit; and an undo or a redo moves the cursor over the tree
\* as it is
UndoHistoryGrowth ==
    /\ []NewestPostInference
    /\ [][LET grown  == Len(tree'.nodes) - Len(tree.nodes)
              pushes == {i \in NewEntries : history'[i].kind = "Push"}
              added  == [n \in 1 .. grown |->
                           PushNewAction(tree'.nodes[Len(tree.nodes) + n],
                                         tree'.edges[Len(tree.edges) + n].weight)]
              events == added \o push_new_action'
          IN  /\ SubSeq(tree'.nodes, 1, Len(tree.nodes)) = tree.nodes
              /\ SubSeq(tree'.edges, 1, Len(tree.edges)) = tree.edges
              /\ Len(tree'.edges) - Len(tree.edges) = grown
              /\ grown = Cardinality(pushes)
              /\ \A i \in NewEntries :
                   LET e      == history'[i]
                       cursor == IF i = Len(history) + 1 THEN tree_loc.current
                                                         ELSE history'[i - 1].to
                       nth    == Cardinality({j \in pushes : j <= i})
                   IN  /\ e.from = cursor
                       /\ e.to \in DOMAIN tree'.nodes
                       /\ e.kind = "Push" =>
                            /\ e.to = Len(tree.nodes) + nth
                            /\ tree'.edges[Len(tree.edges) + nth].source = e.to
                            /\ tree'.edges[Len(tree.edges) + nth].target = cursor
                            /\ nth < grown => PostInference(added[nth].new_state,
                                                            added[nth].action)
              /\ tree_loc'.current = IF NewEntries = {} THEN tree_loc.current
                                     ELSE history'[Len(history')].to
              /\ Len(events) >= Len(push_new_action)
              /\ SubSeq(events, 1, Len(push_new_action)) = push_new_action
              /\ IF inputs' = inputs /\ update_cell_index # <<>>
                 THEN \E p \in SeenByCellUpdate :
                        SentFor(p, update_cell_index,
                                SubSeq(events, Len(push_new_action) + 1, Len(events)))
                 ELSE Len(events) = Len(push_new_action)]_vars

\* C21 witness: of the first hint and two updates dragged after it, one node
\* came: the two changed no bit and added nothing
OneNodeOfThreeUpdates ==
    /\ inputs = 2 /\ pc = "idle"
    /\ update_cell_index = <<>> /\ push_new_action = <<>> /\ fit_clicked = <<>>
    /\ Kinds(history) = <<"Push">>
    /\ Len(tree.nodes) = 2
    /\ tree.edges = <<[source |-> 2, target |-> 1, weight |-> tree.edges[1].weight]>>
    /\ tree.edges[1].weight.update_count = 1
    /\ tree_loc.current = 2
    /\ tree.nodes[2] = puzzle

\* two grids with the same answers and the same candidates in every cell
SameGrid(p, q) ==
    /\ DOMAIN p.rows = DOMAIN q.rows
    /\ \A r \in DOMAIN p.rows : p.rows[r].cell_answers = q.rows[r].cell_answers
    /\ CandidateSets(p) = CandidateSets(q)

\* no event is waiting for cell_update, add_undo_state or adjust_undo_state
NothingPending ==
    update_cell_index = <<>> /\ push_new_action = <<>> /\ fit_clicked = <<>>

\* C24: once the undo tree exists, whenever no update, push or click is
\* pending, the live puzzle is the snapshot of the node the cursor is on,
\* whatever the order the systems ran in
CursorAgreesWithPuzzle ==
    (tree.exists /\ NothingPending) => SameGrid(puzzle, tree.nodes[tree_loc.current])

\* the node k undos lead to from a node, an undo with no edge to follow
\* staying where it is
RECURSIVE Undone(_, _)
Undone(node, k) ==
    IF k = 0 \/ UndoTarget(tree, node) = NoNode THEN node
    ELSE Undone(UndoTarget(tree, node), k - 1)

\* C29: the root has no outgoing edge and every other node exactly one, to the
\* node the cursor was on when it was pushed; there is one node more than
\* there are edges; the cursor is on a node of the tree; and undo repeated
\* from any node comes to the root
UndoGraphShape ==
    tree.exists =>
        /\ Outgoing(tree, tree.root) = {}
        /\ \A node \in DOMAIN tree.nodes \ {tree.root} :
             /\ Cardinality(Outgoing(tree, node)) = 1
             /\ \E i \in DOMAIN history :
                  /\ history[i].kind = "Push" /\ history[i].to = node
                  /\ \A e \in Outgoing(tree, node) : tree.edges[e].target = history[i].from
        /\ Len(tree.nodes) = Len(tree.edges) + 1
        /\ tree_loc.current \in DOMAIN tree.nodes
        /\ \A node \in DOMAIN tree.nodes : Undone(node, Len(tree.edges)) = tree.root

\* C29 witness: after pushes and undos the tree has a node with two futures
\* and one two undos away from the root, and the cursor is not on the node
\* last pushed
BranchedTree ==
    /\ tree.exists /\ Len(tree.nodes) >= 4
    /\ \E node \in DOMAIN tree.nodes : Cardinality(Incoming(tree, node)) = 2
    /\ \E node \in DOMAIN tree.nodes : Undone(node, 1) # tree.root
    /\ tree_loc.current # Len(tree.nodes)

(***************************************************************************)
(* The clue specification: one advance_puzzle of any clue on a grid at     *)
(* most two narrowing applies (Clear or Solo, as a drag or a clue makes    *)
(* them) away from fresh.  The grids are of two rows of ClueWidth columns, *)
(* wide enough for a clue over three columns, and of three rows of         *)
(* GridWidth columns, for a clue over three rows.                          *)
(***************************************************************************)
\* the answers of a row shuffled into a rotation
RotatedAnswers(len) == [c \in 0 .. len - 1 |-> (c + 1) % len]

ThreeRows(cells0, answers0, cells1, answers1, cells2, answers2) ==
    [rows |-> [r \in 0 .. 2 |->
                 CASE r = 0 -> [cell_selection |-> cells0, cell_answers |-> answers0]
                   [] r = 1 -> [cell_selection |-> cells1, cell_answers |-> answers1]
                   [] r = 2 -> [cell_selection |-> cells2, cell_answers |-> answers2]],
     max_column |-> RowMaxColumn([cell_selection |-> cells0])]

\* a grid and the grids one Clear or Solo away from it
GridNarrowings(p) ==
    {p} \cup
    {ApplyUpdate(p, CellLocIndex(l, i), op).puzzle :
       l \in AllLocs(p), i \in 0 .. p.max_column, op \in {"Clear", "Solo"}}

ClueGrids ==
    LET wide == TwoRows(FreshCells(ClueWidth), IdentityAnswers(ClueWidth),
                        FreshCells(ClueWidth), RotatedAnswers(ClueWidth))
        tall == ThreeRows(FreshCells(GridWidth), IdentityAnswers(GridWidth),
                          FreshCells(GridWidth), RotatedAnswers(GridWidth),
                          FreshCells(GridWidth), IdentityAnswers(GridWidth))
    IN  UNION {GridNarrowings(q) : q \in GridNarrowings(wide) \cup GridNarrowings(tall)}

\* BetweenColumnsClue::new_random, furlock/src/clues.rs 640-659: three
\* distinct columns in ascending order, any rows
BetweenColumnsClues(p) ==
    {BetweenColumnsClue(l1, l2, l3) :
       <<l1, l2, l3>> \in {q \in AllLocs(p) \X AllLocs(p) \X AllLocs(p) :
                             q[1].col < q[2].col /\ q[2].col < q[3].col}}

AdvanceBetweenColumns(clue) ==
    Advance("between_columns", clue, BetweenColumnsAdvance(puzzle, clue))

InitClues ==
    /\ puzzle \in ClueGrids
    /\ pc = "idle"
    /\ InferenceIdle
    /\ call = NoCall
    /\ before = puzzle
    /\ ret = NoRet
    /\ cell = VOID
    /\ UndoIdle

\* the grids of three rows are drawn for SameColumnClue, the one clue that
\* spans more rows than two.  The grids of two rows are the same with their
\* rows exchanged and the slot indices renamed, so that the clues over columns
\* are drawn with their first cell in row 0
NextClues ==
    \/ call.kind = "none" /\ \E clue \in SameColumnClues(puzzle) : AdvanceSameColumn(clue)
    \/ call.kind = "none" /\ n_rows(puzzle) = 2
          /\ \E clue \in {c \in AdjacentColumnClues(puzzle) : c.loc1.row = 0} :
                AdvanceAdjacentColumn(clue)
    \/ call.kind = "none" /\ n_rows(puzzle) = 2
          /\ \E clue \in {c \in BetweenColumnsClues(puzzle) : c.loc1.row = 0} :
                AdvanceBetweenColumns(clue)

SpecClues == InitClues /\ [][NextClues]_vars

\* C12: whatever the grid and the clue, an update advance_puzzle returns has
\* the op Clear or Solo, never Set or Toggle
CluesOnlyNarrow ==
    (call.kind \in {"same_column", "adjacent_column", "between_columns"}
       /\ ret.kind = "Some")
        => ret.op \in {"Clear", "Solo"}

\* C12 witness: a clue over three columns has returned a Clear
BetweenReturnedClear ==
    /\ call.kind = "between_columns"
    /\ ret.kind = "Some" /\ ret.op = "Clear"

(***************************************************************************)
(* Properties of the clue specification, stated of the grid the call was   *)
(* made on (before), the clue (call.clue) and what it returned (ret).      *)
(***************************************************************************)
\* the cell of a clue cell's row at column c, looked at for the clue value
At(p, x, c) == SelectionProxy(p, CellLocIndex(CellLoc(x.loc.row, c), x.index))

\* the clue cells of the call in progress
CalledCells ==
    CASE call.kind = "same_column"     -> SameColumnCells(before, call.clue)
      [] call.kind = "adjacent_column" -> AdjacentColumnCells(before, call.clue)
      [] call.kind = "between_columns" -> BetweenColumnsCells(before, call.clue)

\* the ordered pairs of positions of distinct clue cells
CalledPairs == {ij \in (DOMAIN CalledCells) \X (DOMAIN CalledCells) : ij[1] # ij[2]}

\* at column c, this cell's clue value is enabled but not solo and the
\* partner's is solo
SoloCase(this, partner, c) ==
    /\ is_enabled_not_solo(At(before, CalledCells[this], c))
    /\ At(before, CalledCells[partner], c).is_solo

\* the grid and the clue of the scenario: two rows of width 5, the clue at
\* column 2 over rows 0 and 1, whose answers there are both 3, and the cell of
\* row 1 forced Solo to slot 3
ScenarioGrid ==
    TwoRows(FreshCells(5), RotatedAnswers(5),
            [FreshCells(5) EXCEPT ![2] = apply(@, 3, "Solo").sel], RotatedAnswers(5))

ScenarioReturnsSolo ==
    SameColumnAdvance(ScenarioGrid, SameColumnClue(CellLoc(0, 2), 1, NoRow))
        = SomeResult(CellLocIndex(CellLoc(0, 2), 3), "Solo")

NothingBefore(c) ==
    \A k \in DOMAIN CalledCells :
        /\ At(before, CalledCells[k], c).is_enabled
        /\ \A b \in iter_cols(before) :
             b < c => is_enabled_not_solo(At(before, CalledCells[k], b))

ClearCase(this, partner, c) ==
    /\ is_enabled_not_solo(At(before, CalledCells[this], c))
    /\ ~At(before, CalledCells[partner], c).is_enabled

\* C14: a Clear that SameColumnClue's advance_puzzle returns is of a clue
\* cell's value, enabled but not solo, at a column where a partner's clue value
\* is not enabled; and where some column has such a pair the call does not
\* return None, unless a contradiction aborts it
ClearRuleOfSameColumn ==
    call.kind = "same_column" =>
        /\ (ret.kind = "Some" /\ ret.op = "Clear") =>
              \E ij \in CalledPairs :
                 /\ ret.index.loc.row = CalledCells[ij[1]].loc.row
                 /\ ret.index.index = CalledCells[ij[1]].index
                 /\ ClearCase(ij[1], ij[2], ret.index.loc.col)
        /\ (\E ij \in CalledPairs : \E c \in iter_cols(before) : ClearCase(ij[1], ij[2], c))
              => ret.kind \in {"Some", "Panic"}

\* C14 witness: a clue over three rows has returned a Clear at a column right
\* of column 0 and the bit is cleared
ClearForcedByDisabledPartner ==
    /\ call.kind = "same_column" /\ call.clue.row3 # NoRow
    /\ ret.kind = "Some" /\ ret.op = "Clear" /\ ret.index.loc.col > 0
    /\ is_enabled(cell_selection(before, ret.index.loc), ret.index.index)
    /\ ~is_enabled(cell_selection(puzzle, ret.index.loc), ret.index.index)

\* at column c, this cell's clue value is disabled and the partner's is solo
ContradictionCase(this, partner, c) ==
    /\ ~At(before, CalledCells[this], c).is_enabled
    /\ At(before, CalledCells[partner], c).is_solo

ContradictionColumns ==
    {c \in iter_cols(before) : \E ij \in CalledPairs : ContradictionCase(ij[1], ij[2], c)}

\* C15 as stated: on a grid with a contradiction at some column,
\* SameColumnClue's advance_puzzle ends in the fatal error
ContradictionIsFatal ==
    (call.kind = "same_column" /\ ContradictionColumns # {})
        => ret.kind = "Panic" /\ pc = "aborted"

\* C15 amended: on such a grid the call never returns None; it ends in the
\* fatal error unless it finds an update first, which is then at the leftmost
\* column with a contradiction or left of it
ContradictionIsFatalOrPreceded ==
    (call.kind = "same_column" /\ ContradictionColumns # {})
        => \/ ret.kind = "Panic" /\ pc = "aborted"
           \/ /\ ret.kind = "Some"
              /\ \A c \in ContradictionColumns : ret.index.loc.col <= c

\* C15 witness: a call has ended in the fatal error on a contradiction right
\* of column 0
AbortedOnContradiction ==
    /\ call.kind = "same_column"
    /\ ContradictionColumns # {} /\ 0 \notin ContradictionColumns
    /\ ret.kind = "Panic" /\ pc = "aborted"
    /\ puzzle = before

\* with the pivot at column c, the pivot's clue value is enabled but not solo
\* and the partner's is enabled neither at its offset from c nor at the
\* mirrored offset, a column outside the grid counting as not enabled
AdjacentCase(pivot, partner, c) ==
    LET d == CalledCells[partner].loc.col - CalledCells[pivot].loc.col
    IN  /\ c \in iter_cols(before)
        /\ is_enabled_not_solo(At(before, CalledCells[pivot], c))
        /\ ~At(before, CalledCells[partner], c + d).is_enabled
        /\ ~At(before, CalledCells[partner], c - d).is_enabled

\* C16: AdjacentColumnClue's advance_puzzle returns Some exactly when some
\* pivot among the two clue cells and some column of the grid are in that
\* case, and the update is then the Clear of a pivot's clue value at such a
\* column
AdjacentRule ==
    call.kind = "adjacent_column" =>
        /\ ret.kind \in {"Some", "None"}
        /\ ret.kind = "Some" <=>
              \E ij \in CalledPairs : \E c \in iter_cols(before) : AdjacentCase(ij[1], ij[2], c)
        /\ ret.kind = "Some" =>
              /\ ret.op = "Clear"
              /\ \E ij \in CalledPairs :
                    /\ ret.index.loc.row = CalledCells[ij[1]].loc.row
                    /\ ret.index.index = CalledCells[ij[1]].index
                    /\ AdjacentCase(ij[1], ij[2], ret.index.loc.col)

\* C16 witness: the Clear returned has the clue's second cell for its pivot,
\* at a column other than that cell's own, and the bit is cleared
AdjacentClearedSecondCell ==
    /\ call.kind = "adjacent_column"
    /\ ret.kind = "Some" /\ ret.op = "Clear"
    /\ ret.index.loc.row = call.clue.loc2.row
    /\ ret.index.index = CalledCells[2].index
    /\ ret.index.loc.col # call.clue.loc2.col
    /\ AdjacentCase(2, 1, ret.index.loc.col)
    /\ ~AdjacentCase(1, 2, ret.index.loc.col)
    /\ ~is_enabled(cell_selection(puzzle, ret.index.loc), ret.index.index)

\* the shifts of the windows of the call, and the rules of its clue by the
\* number of their if_then
CalledShifts == SeqRange(iter_col_shift(before, colspan(CalledCells)))

CalledRules == IF call.kind = "same_column" THEN 1 .. 3 ELSE 1 .. 1

\* what one rule makes of one ordered pair of one window: key <<shift, this,
\* partner, rule>>
RuleAt(key) ==
    LET c1 == CalledCells[key[2]]
        c2 == CalledCells[key[3]]
        l1 == At(before, c1, c1.loc.col + key[1])
        l2 == At(before, c2, c2.loc.col + key[1])
    IN  IF call.kind = "same_column"
        THEN CASE key[4] = 1 -> SameColumnContradiction(l1, l2)
               [] key[4] = 2 -> SameColumnSolo(l1, l2)
               [] key[4] = 3 -> SameColumnClear(l1, l2)
        ELSE IF l1.is_void THEN NoneResult
             ELSE AdjacentColumnClear(l1, l2,
                      At(before, c2, 2 * (c1.loc.col + key[1]) - (c2.loc.col + key[1])))

\* enumeration order: shifts from the leftmost, then pairs in the order of
\* permutations(2), then rules as added
KeyBefore(a, b) ==
    \/ a[1] < b[1]
    \/ a[1] = b[1] /\ a[2] < b[2]
    \/ a[1] = b[1] /\ a[2] = b[2] /\ a[3] < b[3]
    \/ a[1] = b[1] /\ a[2] = b[2] /\ a[3] = b[3] /\ a[4] < b[4]

\* the keys at which a rule yields a result or panics
Hits ==
    {key \in CalledShifts \X (DOMAIN CalledCells) \X (DOMAIN CalledCells) \X CalledRules :
        key[2] # key[3] /\ RuleAt(key).kind # "None"}

\* C17: advance_puzzle returns the rule result that is first in enumeration
\* order among those that are not None, whatever comes after it, and None if
\* there is none
FirstMatchWins ==
    call.kind \in {"same_column", "adjacent_column"} =>
        LET hits == Hits
        IN  IF hits = {} THEN ret = NoneResult
            ELSE \E key \in hits :
                    /\ \A other \in hits : other = key \/ KeyBefore(key, other)
                    /\ ret = RuleAt(key)

\* C17 witness: an update was returned and applied though a later pair of the
\* enumeration would have panicked and another would have forced another update
ReturnedBeforeLaterResults ==
    /\ call.kind = "same_column"
    /\ ret.kind = "Some" /\ pc = "idle" /\ puzzle # before
    /\ \E key \in Hits : RuleAt(key).kind = "Panic"
    /\ \E key \in Hits : RuleAt(key).kind = "Some" /\ RuleAt(key) # ret

\* the triples handed to the rules by iter_reflected_2s, over the windows of
\* the call
CalledTriples ==
    UNION {SeqRange(Mirrored2s(before, w)) :
             w \in SeqRange(iter_all_cols(before, CalledCells))}

\* C20: for every ordered pair (A, B) of window cells, the mirror location B'
\* handed to the rules has the column 2 * A.column - B.column and the row and
\* slot index of B
ReflectionSymmetry ==
    call.kind = "adjacent_column" =>
        \A t \in CalledTriples :
            /\ t.loc2_p.index_.loc.col = 2 * t.loc1.index_.loc.col - t.loc2.index_.loc.col
            /\ t.loc2_p.index_.loc.row = t.loc2.index_.loc.row
            /\ t.loc2_p.index_.index = t.loc2.index_.index

\* C20 witness: the clue returned None because of a mirror location: some
\* pivot is enabled but not solo with its partner not enabled where the window
\* has it, and enabled at the mirror location, a column of the grid on the
\* other side of the pivot
SavedByMirror ==
    /\ call.kind = "adjacent_column" /\ ret.kind = "None"
    /\ \E t \in CalledTriples :
          /\ is_enabled_not_solo(t.loc1)
          /\ ~t.loc2.is_enabled /\ ~t.loc2.is_void
          /\ t.loc2_p.is_enabled
          /\ t.loc2_p.index_.loc.col # t.loc2.index_.loc.col

\* the windows of the call, in the order iter_all_cols yields them
CalledWindows == iter_all_cols(before, CalledCells)

\* the columns of a window
WindowCols(w) == {w[i].loc.col : i \in DOMAIN w}

\* C30: iter_all_cols yields abs_diff + max_column + 1 windows; the k-th has
\* its minimum column at -abs_diff + k - 1, so the minimum runs over
\* -abs_diff..=max_column in increasing order; each window has the rows, the
\* slot indices and the pairwise column offsets of the clue cells; the clue
\* cells themselves are one of the windows; every window has a cell whose
\* column is in 0..=max_column
WindowsOfEveryShift ==
    call.kind \in {"same_column", "adjacent_column", "between_columns"} =>
        LET span == colspan(CalledCells)
        IN  /\ Len(CalledWindows) = span.abs_diff + before.max_column + 1
            /\ \A k \in DOMAIN CalledWindows :
                 LET w == CalledWindows[k]
                 IN  /\ Min(WindowCols(w)) = k - 1 - span.abs_diff
                     /\ DOMAIN w = DOMAIN CalledCells
                     /\ \A i \in DOMAIN w :
                          /\ w[i].loc.row = CalledCells[i].loc.row
                          /\ w[i].index = CalledCells[i].index
                     /\ \A i, j \in DOMAIN w :
                          w[i].loc.col - w[j].loc.col
                            = CalledCells[i].loc.col - CalledCells[j].loc.col
                     /\ \E c \in WindowCols(w) : c \in 0 .. before.max_column
            /\ {Min(WindowCols(CalledWindows[k])) : k \in DOMAIN CalledWindows}
                 = (0 - span.abs_diff) .. before.max_column
            /\ \E k \in DOMAIN CalledWindows : CalledWindows[k] = CalledCells

\* C30 witness: a call of a clue that spans three columns, with a window that
\* has one cell left of the grid and a window that has one cell right of it
WindowsPastBothEdges ==
    /\ call.kind = "between_columns" /\ colspan(CalledCells).abs_diff = 2
    /\ \E k \in DOMAIN CalledWindows : \E c \in WindowCols(CalledWindows[k]) : c < 0
    /\ \E k \in DOMAIN CalledWindows :
          \E c \in WindowCols(CalledWindows[k]) : c > before.max_column

(***************************************************************************)
(* The play specification: a grid of two rows of ClueWidth columns, fresh, *)
(* row 1 with any answers, played by hints (Solo of a cell to its answer,  *)
(* as spawn_row sends it, main.rs 671-681) and by the updates the clues    *)
(* return, each applied as cell_update applies it: apply, then             *)
(* run_inference seeded with the cell (main.rs 1136-1144).                 *)
(***************************************************************************)
\* Renaming the slot indices of a row takes its answers to any other
\* permutation and changes neither the clues, which name cells, nor the order
\* results are looked for in, so that row 1 is drawn with two of the
\* permutations
PlayGrids ==
    {TwoRows(FreshCells(ClueWidth), IdentityAnswers(ClueWidth),
             FreshCells(ClueWidth), a1) :
       a1 \in {IdentityAnswers(ClueWidth), RotatedAnswers(ClueWidth)}}

\* cell_update of one update, main.rs 1136-1144: the grids it can leave, over
\* the iteration orders of run_inference; an update that changes no bit is
\* skipped after apply
UpdatedGrids(p, index, op) ==
    LET u == ApplyUpdate(p, index, op)
    IN  IF u.ret = 0 THEN {[puzzle |-> u.puzzle, aborted |-> FALSE]}
        ELSE {[puzzle |-> run.puzzle, aborted |-> run.aborted] :
                run \in run_inference(u.puzzle, {index.loc})}

\* what the clues of the grid return when polled, clue by clue
PolledSameColumn(p) == {SameColumnAdvance(p, clue) : clue \in SameColumnClues(p)}

PolledAdjacentColumn(p) ==
    {AdjacentColumnAdvance(p, clue) : clue \in AdjacentColumnClues(p)}

\* a result enacted: the panic of the clue, or the update through cell_update
Enacted(result) ==
    /\ pc = "idle"
    /\ result.kind # "None"
    /\ IF result.kind = "Panic" \/ cell_selection_mut_aborts(puzzle, result.index.loc)
       THEN pc' = "aborted" /\ UNCHANGED puzzle
       ELSE \E g \in UpdatedGrids(puzzle, result.index, result.op) :
              /\ puzzle' = g.puzzle
              /\ pc' = IF g.aborted THEN "aborted" ELSE pc
    /\ UNCHANGED <<considering, to_update, updates, steps, cell, undovars>>

\* one round: the call, its result, and the result enacted.  Of the round the
\* state keeps the kind of the call and the result, not the grid it was made on
Played(kind, result) ==
    /\ call' = [kind |-> kind]
    /\ ret' = result
    /\ UNCHANGED before
    /\ Enacted(result)

\* a hint that tells something: the cell is not yet down to its answer
Hint(loc) ==
    /\ count_ones(cell_selection(puzzle, loc)) > 1
    /\ Played("hint", SomeResult(answer_index(puzzle, loc), "Solo"))

PlaySameColumn == \E result \in PolledSameColumn(puzzle) : Played("same_column", result)

PlayAdjacentColumn ==
    \E result \in PolledAdjacentColumn(puzzle) : Played("adjacent_column", result)

InitPlay ==
    /\ puzzle \in PlayGrids
    /\ pc = "idle"
    /\ InferenceIdle
    /\ call = NoCall
    /\ before = puzzle
    /\ ret = NoRet
    /\ cell = VOID
    /\ UndoIdle

NextPlay ==
    \/ \E loc \in AllLocs(puzzle) : Hint(loc)
    \/ PlaySameColumn
    \/ PlayAdjacentColumn

SpecPlay == InitPlay /\ [][NextPlay]_vars

\* C22: under play every cell keeps the slot index of its answer enabled
TrueAnswersEnabled ==
    \A loc \in AllLocs(puzzle) :
        is_enabled(cell_selection(puzzle, loc), answer_index(puzzle, loc).index)

\* C22 witness: a clue's update and the inference after it have brought the
\* grid down to its answers
SolvedByClue ==
    /\ call.kind \in {"same_column", "adjacent_column"} /\ pc = "idle"
    /\ \A loc \in AllLocs(puzzle) :
          iter_ones(cell_selection(puzzle, loc)) = {answer_index(puzzle, loc).index}
    /\ ret.kind = "Some" /\ ret.op = "Clear"

\* the first rule of SameColumnClue (clues.rs 579-584) would panic somewhere
\* in the windows of the clue: at some ordered pair of cells of some window
\* the first is not enabled and the second is solo
ContradictionIn(p, clue) ==
    LET windows == iter_all_cols(p, SameColumnCells(p, clue))
    IN  \E k \in DOMAIN windows :
          \E i, j \in DOMAIN windows[k] :
             /\ i # j
             /\ ~SelectionProxy(p, windows[k][i]).is_enabled
             /\ SelectionProxy(p, windows[k][j]).is_solo

\* C28: under play no call of a SameColumnClue's advance_puzzle aborts on the
\* contradiction, and no grid reached has a window of a SameColumnClue in
\* which the contradiction rule would abort, wherever the call would stop
NoContradictionUnderPlay ==
    /\ pc # "aborted"
    /\ ret.kind # "Panic"
    /\ \A clue \in SameColumnClues(puzzle) : ~ContradictionIn(puzzle, clue)

\* C28 witness: a SameColumnClue was polled with a cell of its column solo,
\* the case the contradiction rule looks at, and returned the Solo of the
\* second rule
SoloPartnerWithoutContradiction ==
    /\ call.kind = "same_column" /\ pc = "idle"
    /\ ret.kind = "Some" /\ ret.op = "Solo"

(***************************************************************************)
(* The driver specification: the grid as spawn_row leaves it, fresh with   *)
(* one hint enacted (main.rs 671-681), and then rounds of show_clues       *)
(* (main.rs 951-991) alone: the clues are polled, the first update         *)
(* returned is enacted by cell_update.  The clues of the list are every    *)
(* SameColumnClue and AdjacentColumnClue of the grid, polled in any order. *)
(* The driver polls again and again, so that a round that can be played    *)
(* is played: weak fairness of the round.                                  *)
(***************************************************************************)
HintedGrids ==
    UNION {{g.puzzle : g \in UpdatedGrids(p, answer_index(p, loc), "Solo")} :
             <<p, loc>> \in {q \in PlayGrids \X AllLocs(TwoRows(FreshCells(ClueWidth),
                                      IdentityAnswers(ClueWidth), FreshCells(ClueWidth),
                                      IdentityAnswers(ClueWidth))) : TRUE}}

InitDriver ==
    /\ puzzle \in HintedGrids
    /\ pc = "idle"
    /\ InferenceIdle
    /\ call = NoCall
    /\ before = puzzle
    /\ ret = NoRet
    /\ cell = VOID
    /\ UndoIdle

\* what the clues of the grid return
Polled(p) == PolledSameColumn(p) \cup PolledAdjacentColumn(p)

\* one round of the driver: of the updates the clues return, the one of the
\* clue polled first is enacted.  The state keeps the grid alone
Round ==
    /\ \E result \in Polled(puzzle) : Enacted(result)
    /\ UNCHANGED <<call, before, ret>>

NextDriver == Round

\* a round can be played: the grid is live and some clue returns an update (or
\* panics).  An update returned changes the grid, so that this is ENABLED
\* <<NextDriver>>_vars
CanPlay == pc = "idle" /\ Polled(puzzle) # {NoneResult}

\* weak fairness of the round, WF_vars(NextDriver), with its ENABLED written
\* as the state predicate it is
RoundIsPlayed == []<>~CanPlay \/ []<><<NextDriver>>_vars

SpecDriver == InitDriver /\ [][NextDriver]_vars /\ RoundIsPlayed

\* every clue's advance_puzzle returns None
Quiescent == Polled(puzzle) = {NoneResult}

\* every update the clues return on the grid names a cell of the grid whose
\* target index is enabled and not solo, and apply of it reports a change
ReturnedUpdatesChangeABit ==
    \A result \in Polled(puzzle) :
        result.kind = "Some" =>
            /\ InRow(puzzle, result.index.loc)
            /\ is_enabled_not_solo(SelectionProxy(puzzle, result.index))
            /\ ApplyUpdate(puzzle, result.index, result.op).ret >= 1

\* C23: on every grid the driver reaches every update returned names an
\* in-grid cell with the target index enabled and not solo and changes a bit
\* when applied; every round leaves fewer candidates enabled than it found;
\* and the driver comes to a grid on which every clue returns None
HintProgressAndQuiescence ==
    /\ []ReturnedUpdatesChangeABit
    /\ [][TotalOnes(puzzle') < TotalOnes(puzzle)]_vars
    /\ <>Quiescent

\* C23 witness: rounds were played on the grid the driver began with (before),
\* one of them at least in each row, and no clue returns an update any more
QuiescentAfterRounds ==
    /\ pc = "idle"
    /\ \A row \in iter_rows(puzzle) : puzzle.rows[row] # before.rows[row]
    /\ Quiescent

=============================================================================
